---------------------------- MODULE Spec2Model ----------------------------
(***************************************************************************)
(* Blinder: the chat request orchestrator (api/routes/chat.py), the        *)
(* document upload (services/document_service.py), the blinding pipeline   *)
(* (blinder/pipeline.py) and the session vault (blinder/vault.py).         *)
(*                                                                         *)
(* A text is a sequence of one-character strings; offsets are Python's     *)
(* (0-based, half-open), so text[a:b] is Slice(text, a, b).                *)
(***************************************************************************)
EXTENDS Integers, Sequences, FiniteSets, TLC

\* ------------------------------------------------------------------ bounds

\* Largest number of chunk events one streamed LLM answer is cut into.
MaxChunks == 1

\* Largest number of pipeline calls made on the one vault of PipeSpec.
MaxCalls == 2

\* the chunks of a chunking loop that are kept
MaxIter == 6

\* ------------------------------------------------------------- text basics

Min(a, b) == IF a < b THEN a ELSE b

Max(a, b) == IF a > b THEN a ELSE b

\* Python's text[a:b] for 0 <= a, with the end clamped to the length.
Slice(text, a, b) == SubSeq(text, a + 1, Min(b, Len(text)))

\* pattern occurs in text at 0-based offset i
OccursAt(text, pattern, i) ==
    /\ i >= 0
    /\ i + Len(pattern) <= Len(text)
    /\ SubSeq(text, i + 1, i + Len(pattern)) = pattern

\* Python's `pattern in text`
Contains(text, pattern) ==
    \E i \in 0..(Len(text) - Len(pattern)) : OccursAt(text, pattern, i)

RECURSIVE ReplaceFrom(_, _, _, _)
\* str.replace scanning from offset i: leftmost, non-overlapping occurrences.
ReplaceFrom(text, old, new, i) ==
    IF i + Len(old) > Len(text) THEN Slice(text, i, Len(text))
    ELSE IF OccursAt(text, old, i)
         THEN new \o ReplaceFrom(text, old, new, i + Len(old))
         ELSE <<text[i + 1]>> \o ReplaceFrom(text, old, new, i + 1)

\* Python's text.replace(old, new) for a non-empty old
Replace(text, old, new) == ReplaceFrom(text, old, new, 0)

RECURSIVE SplitOn(_, _)
\* text.split(sep)
SplitOn(text, sep) ==
    IF \E i \in 0..(Len(text) - Len(sep)) : OccursAt(text, sep, i)
    THEN LET i == CHOOSE i \in 0..(Len(text) - Len(sep)) :
                      /\ OccursAt(text, sep, i)
                      /\ \A k \in 0..(i - 1) : ~OccursAt(text, sep, k)
         IN <<Slice(text, 0, i)>> \o SplitOn(Slice(text, i + Len(sep), Len(text)), sep)
    ELSE <<text>>

RECURSIVE Concat(_)
\* "".join(parts)
Concat(parts) ==
    IF parts = <<>> THEN <<>> ELSE Head(parts) \o Concat(Tail(parts))

DIGITS == <<"0", "1", "2", "3", "4", "5", "6", "7", "8", "9">>

IsDigit(c) == \E i \in 1..10 : DIGITS[i] = c

DigitValue(c) == (CHOOSE i \in 1..10 : DIGITS[i] = c) - 1

RECURSIVE IntToStr(_)
\* str(n) for n >= 0, as f"{counter}" formats it
IntToStr(n) ==
    IF n < 10 THEN <<DIGITS[n + 1]>>
    ELSE IntToStr(n \div 10) \o <<DIGITS[(n % 10) + 1]>>

RECURSIVE DigitsToInt(_, _)
DigitsToInt(s, acc) ==
    IF s = <<>> THEN acc ELSE DigitsToInt(Tail(s), acc * 10 + DigitValue(Head(s)))

\* int(num_str): the number, or -1 where Python raises ValueError
ParseInt(s) ==
    IF s # <<>> /\ \A i \in 1..Len(s) : IsDigit(s[i]) THEN DigitsToInt(s, 0) ELSE -1

RECURSIVE LStrip(_, _)
LStrip(s, chars) ==
    IF s # <<>> /\ Head(s) \in chars THEN LStrip(Tail(s), chars) ELSE s

RECURSIVE RStrip(_, _)
RStrip(s, chars) ==
    IF s # <<>> /\ s[Len(s)] \in chars THEN RStrip(SubSeq(s, 1, Len(s) - 1), chars) ELSE s

\* str.strip(chars)
Strip(s, chars) == RStrip(LStrip(s, chars), chars)

\* index (1-based) of the last occurrence of character c in s, 0 when absent
LastIndexOf(s, c) ==
    IF \E i \in 1..Len(s) : s[i] = c
    THEN CHOOSE i \in 1..Len(s) : s[i] = c /\ \A j \in (i + 1)..Len(s) : s[j] # c
    ELSE 0

\* s.rsplit(c, 1): <<before, after>> of the last c, or <<s>> when c is absent
RSplit1(s, c) ==
    LET i == LastIndexOf(s, c)
    IN IF i = 0 THEN <<s>> ELSE <<SubSeq(s, 1, i - 1), SubSeq(s, i + 1, Len(s))>>

\* ------------------------------------------------- insertion-ordered dicts

\* A Python dict: a sequence of [k, v] pairs in insertion order.
DictHas(d, k) == \E i \in 1..Len(d) : d[i].k = k

DictGet(d, k) == d[CHOOSE i \in 1..Len(d) : d[i].k = k].v

DictGetOr(d, k, default) == IF DictHas(d, k) THEN DictGet(d, k) ELSE default

\* d[k] = v: an existing key keeps its place, a new key goes last
DictSet(d, k, v) ==
    IF DictHas(d, k)
    THEN [i \in 1..Len(d) |-> IF d[i].k = k THEN [k |-> k, v |-> v] ELSE d[i]]
    ELSE Append(d, [k |-> k, v |-> v])

\* ------------------------------------------------------ crypto primitives

\* derive_key: PBKDF2 is deterministic in (master key, salt); two keys are
\* equal exactly when both inputs are.
derive_key(master_key, salt) == [master |-> master_key, salt |-> salt]

\* encrypt: AES-GCM under `key` with the fresh nonce `nonce` (os.urandom)
encrypt(plaintext, key, nonce) ==
    [ciphertext |-> [sealed |-> plaintext, key |-> key, nonce |-> nonce],
     nonce |-> nonce]

\* The value a failed authentication stands for (InvalidTag is raised).
AuthenticationFailed == <<"!", "I", "n", "v", "a", "l", "i", "d", "T", "a", "g">>

\* decrypt: the plaintext when key and nonce are those of the encryption
decrypt(ciphertext, key, nonce) ==
    IF ciphertext.key = key /\ ciphertext.nonce = nonce
    THEN ciphertext.sealed
    ELSE AuthenticationFailed

\* -------------------------------------------------------------------- vault

\* Vault.__init__: empty maps
EmptyVault == [forward |-> <<>>, reverse |-> <<>>, entries |-> <<>>, counters |-> <<>>]

\* VaultEntry dataclass
VaultEntry(entity_type, pseudonym, real_value, aliases) ==
    [entity_type |-> entity_type, pseudonym |-> pseudonym,
     real_value |-> real_value, aliases |-> aliases]

\* f"[{entity_type}_{counter}]"
FormatPseudonym(entity_type, counter) ==
    <<"[">> \o entity_type \o <<"_">> \o IntToStr(counter) \o <<"]">>

\* add_entity were it to number every value it is given, known or not
add_entity_always_new(vault, real_value, entity_type) ==
    LET counter == DictGetOr(vault.counters, entity_type, 0) + 1
        pseudonym == FormatPseudonym(entity_type, counter)
    IN [vault |->
           [forward |-> DictSet(vault.forward, real_value, pseudonym),
            reverse |-> DictSet(vault.reverse, pseudonym, real_value),
            entries |-> DictSet(vault.entries, pseudonym,
                                VaultEntry(entity_type, pseudonym, real_value, <<>>)),
            counters |-> DictSet(vault.counters, entity_type, counter)],
        pseudonym |-> pseudonym]

\* Vault.add_entity: [vault |-> the vault afterwards, pseudonym |-> the result]
add_entity(vault, real_value, entity_type) ==
    IF DictHas(vault.forward, real_value)
    THEN [vault |-> vault, pseudonym |-> DictGet(vault.forward, real_value)]
    ELSE LET counter == DictGetOr(vault.counters, entity_type, 0) + 1
             pseudonym == FormatPseudonym(entity_type, counter)
         IN [vault |->
                [forward |-> DictSet(vault.forward, real_value, pseudonym),
                 reverse |-> DictSet(vault.reverse, pseudonym, real_value),
                 entries |-> DictSet(vault.entries, pseudonym,
                                     VaultEntry(entity_type, pseudonym, real_value, <<>>)),
                 counters |-> DictSet(vault.counters, entity_type, counter)],
             pseudonym |-> pseudonym]

\* Vault.get_pseudonym: the pseudonym, or <<>> for None
get_pseudonym(vault, real_value) == DictGetOr(vault.forward, real_value, <<>>)

\* Vault.get_real_value: is the pseudonym bound, and to what
has_real_value(vault, pseudonym) == DictHas(vault.reverse, pseudonym)

get_real_value(vault, pseudonym) == DictGet(vault.reverse, pseudonym)

\* Vault.add_alias for a pseudonym of the vault (an unknown one raises KeyError)
add_alias(vault, pseudonym, alias) ==
    LET entry == DictGet(vault.entries, pseudonym)
        aliases == IF \E i \in 1..Len(entry.aliases) : entry.aliases[i] = alias
                   THEN entry.aliases
                   ELSE Append(entry.aliases, alias)
    IN [vault EXCEPT
          !.entries = DictSet(vault.entries, pseudonym, [entry EXCEPT !.aliases = aliases]),
          !.forward = DictSet(vault.forward, alias, pseudonym)]

\* list.sort / sorted() under the strict order Before: stable, so an element
\* goes after those that precede it and after its equals that came earlier
StableSort(seq, Before(_, _)) ==
    LET rank(i) == Cardinality({j \in 1..Len(seq) :
                                   \/ Before(seq[j], seq[i])
                                   \/ (~Before(seq[i], seq[j]) /\ j < i)}) + 1
    IN [r \in 1..Len(seq) |-> seq[CHOOSE i \in 1..Len(seq) : rank(i) = r]]

\* sorted(entities, key=lambda e: e.start, reverse=True)
SortByStartDesc(entities) == StableSort(entities, LAMBDA a, b : a.start > b.start)

\* the splice of one entity: result[:start] + pseudonym + result[end:]
Splice(result, entity, pseudonym) ==
    Slice(result, 0, entity.start) \o pseudonym \o Slice(result, entity.end, Len(result))

RECURSIVE PseudonymizeLoop(_, _, _)
PseudonymizeLoop(vault, result, sorted_entities) ==
    IF sorted_entities = <<>> THEN [vault |-> vault, text |-> result]
    ELSE LET entity == Head(sorted_entities)
             added == add_entity(vault, entity.text, entity.label)
         IN PseudonymizeLoop(added.vault,
                             Splice(result, entity, added.pseudonym),
                             Tail(sorted_entities))

\* pseudonymize_text were it to splice the entities front to back: the
\* offsets of the later entities are then those of a text already changed
pseudonymize_text_front_to_back(vault, text, entities) ==
    PseudonymizeLoop(vault, text, StableSort(entities, LAMBDA a, b : a.start < b.start))

\* Vault.pseudonymize_text: [vault |-> the vault afterwards, text |-> the result]
pseudonymize_text(vault, text, entities) ==
    PseudonymizeLoop(vault, text, SortByStartDesc(entities))

\* Vault.get_all_entries
get_all_entries(vault) == [i \in 1..Len(vault.entries) |-> vault.entries[i].v]

RECURSIVE RegisterAliases(_, _, _)
\* load_entries, "Re-register aliases"
RegisterAliases(forward, aliases, pseudonym) ==
    IF aliases = <<>> THEN forward
    ELSE RegisterAliases(DictSet(forward, Head(aliases), pseudonym), Tail(aliases), pseudonym)

\* load_entries, one iteration of the loop, were it to leave the counters alone
LoadEntry_counters_not_restored(vault, entry) ==
    [vault EXCEPT
       !.forward = RegisterAliases(DictSet(vault.forward, entry.real_value, entry.pseudonym),
                                   entry.aliases, entry.pseudonym),
       !.reverse = DictSet(vault.reverse, entry.pseudonym, entry.real_value),
       !.entries = DictSet(vault.entries, entry.pseudonym, entry)]

\* load_entries, one iteration of the loop.  A pseudonym whose number does
\* not parse skips the rest of the iteration (`continue`), aliases included.
LoadEntry(vault, entry) ==
    LET base == [vault EXCEPT
                   !.forward = DictSet(vault.forward, entry.real_value, entry.pseudonym),
                   !.reverse = DictSet(vault.reverse, entry.pseudonym, entry.real_value),
                   !.entries = DictSet(vault.entries, entry.pseudonym, entry)]
        parts == RSplit1(Strip(entry.pseudonym, {"[", "]"}), "_")
        num == IF Len(parts) = 2 THEN ParseInt(parts[2]) ELSE -1
        counted == IF Len(parts) = 2 /\ num > DictGetOr(base.counters, parts[1], 0)
                   THEN [base EXCEPT !.counters = DictSet(base.counters, parts[1], num)]
                   ELSE base
    IN IF Len(parts) = 2 /\ num = -1
       THEN base
       ELSE [counted EXCEPT
               !.forward = RegisterAliases(counted.forward, entry.aliases, entry.pseudonym)]

RECURSIVE load_entries(_, _)
\* Vault.load_entries
load_entries(vault, entries) ==
    IF entries = <<>> THEN vault
    ELSE load_entries(LoadEntry(vault, Head(entries)), Tail(entries))

\* --------------------------------------------------------- character classes

UPPERCASE == <<"A", "B", "C", "D", "E", "F", "G", "H", "I", "J", "K", "L", "M",
               "N", "O", "P", "Q", "R", "S", "T", "U", "V", "W", "X", "Y", "Z">>

LOWERCASE == <<"a", "b", "c", "d", "e", "f", "g", "h", "i", "j", "k", "l", "m",
               "n", "o", "p", "q", "r", "s", "t", "u", "v", "w", "x", "y", "z">>

IsUpper(c) == \E i \in 1..26 : UPPERCASE[i] = c

IsLatin(c) == IsUpper(c) \/ \E i \in 1..26 : LOWERCASE[i] = c

\* str.lower() on one character
LowerChar(c) ==
    IF IsUpper(c) THEN LOWERCASE[CHOOSE i \in 1..26 : UPPERCASE[i] = c] ELSE c

\* str.lower()
Lower(s) == [i \in 1..Len(s) |-> LowerChar(s[i])]

\* \w of the re module
IsWordChar(c) == IsLatin(c) \/ IsDigit(c) \/ c = "_"

\* \s of the re module, and the characters str.strip() and str.split() remove
WHITESPACE == {" ", "\t", "\n", "\r", "\f"}

\* \b at offset i: exactly one side of the position is a word character
WordBoundary(text, i) ==
    (i > 0 /\ i <= Len(text) /\ IsWordChar(text[i]))
        # (i < Len(text) /\ IsWordChar(text[i + 1]))

RECURSIVE SkipSpaces(_, _)
\* the offset after the whitespace run that starts at offset i
SkipSpaces(text, i) ==
    IF i < Len(text) /\ text[i + 1] \in WHITESPACE THEN SkipSpaces(text, i + 1) ELSE i

\* the literal `word` at offset i, compared as the pattern's flags say
LiteralAt(text, word, i, ignorecase) ==
    /\ i + Len(word) <= Len(text)
    /\ LET there == SubSeq(text, i + 1, i + Len(word))
       IN IF ignorecase THEN Lower(there) = Lower(word) ELSE there = word

RECURSIVE MatchWordsAt(_, _, _, _)
\* w1\s+w2\s+... at offset i: the offset after the match, or -1
MatchWordsAt(text, words, i, ignorecase) ==
    IF ~LiteralAt(text, Head(words), i, ignorecase) THEN -1
    ELSE LET after == i + Len(Head(words))
         IN IF Len(words) = 1 THEN after
            ELSE LET next == SkipSpaces(text, after)
                 IN IF next = after THEN -1
                    ELSE MatchWordsAt(text, Tail(words), next, ignorecase)

\* ---------------------------------------------------------- threat sanitiser

\* ThreatDetail dataclass
ThreatDetail(threat_type, description, severity, matched_pattern) ==
    [threat_type |-> threat_type, description |-> description,
     severity |-> severity, matched_pattern |-> matched_pattern]

\* _INJECTION_PATTERNS.  A pattern is its words, joined by \s+; an optional
\* word group is written out as alternatives, the longer first, as the greedy
\* `?` tries them.  wb_start / wb_end are the \b anchors.
_INJECTION_PATTERNS ==
    <<
      [alts |-> <<<<<<"i","g","n","o","r","e">>, <<"a","l","l">>, <<"p","r","e","v","i","o","u","s">>, <<"i","n","s","t","r","u","c","t","i","o","n","s">>>>,
                   <<<<"i","g","n","o","r","e">>, <<"p","r","e","v","i","o","u","s">>, <<"i","n","s","t","r","u","c","t","i","o","n","s">>>>>>,
       wb_start |-> FALSE, wb_end |-> FALSE, ignorecase |-> TRUE,
       severity |-> "high", description |-> "Attempt to override system instructions"],
      [alts |-> <<<<<<"i","g","n","o","r","e">>, <<"a","l","l">>, <<"p","r","i","o","r">>>>>>,
       wb_start |-> FALSE, wb_end |-> FALSE, ignorecase |-> TRUE,
       severity |-> "high", description |-> "Attempt to override prior instructions"],
      [alts |-> <<<<<<"d","i","s","r","e","g","a","r","d">>, <<"a","l","l">>, <<"t","h","e">>, <<"a","b","o","v","e">>>>,
                   <<<<"d","i","s","r","e","g","a","r","d">>, <<"a","l","l">>, <<"a","b","o","v","e">>>>,
                   <<<<"d","i","s","r","e","g","a","r","d">>, <<"t","h","e">>, <<"a","b","o","v","e">>>>,
                   <<<<"d","i","s","r","e","g","a","r","d">>, <<"a","b","o","v","e">>>>>>,
       wb_start |-> FALSE, wb_end |-> FALSE, ignorecase |-> TRUE,
       severity |-> "high", description |-> "Attempt to disregard above context"],
      [alts |-> <<<<<<"r","e","p","e","a","t">>, <<"y","o","u","r">>, <<"s","y","s","t","e","m">>, <<"p","r","o","m","p","t">>>>>>,
       wb_start |-> FALSE, wb_end |-> FALSE, ignorecase |-> TRUE,
       severity |-> "high", description |-> "Attempt to extract system prompt"],
      [alts |-> <<<<<<"w","h","a","t">>, <<"a","r","e">>, <<"y","o","u","r">>, <<"i","n","s","t","r","u","c","t","i","o","n","s">>>>>>,
       wb_start |-> FALSE, wb_end |-> FALSE, ignorecase |-> TRUE,
       severity |-> "high", description |-> "Attempt to extract system instructions"],
      [alts |-> <<<<<<"p","r","i","n","t">>, <<"y","o","u","r">>, <<"p","r","o","m","p","t">>>>>>,
       wb_start |-> FALSE, wb_end |-> FALSE, ignorecase |-> TRUE,
       severity |-> "high", description |-> "Attempt to extract prompt"],
      [alts |-> <<<<<<"y","o","u">>, <<"a","r","e">>, <<"n","o","w">>>>>>,
       wb_start |-> FALSE, wb_end |-> TRUE, ignorecase |-> TRUE,
       severity |-> "medium", description |-> "Persona override attempt"],
      [alts |-> <<<<<<"a","c","t">>, <<"a","s">>, <<"i","f">>>>>>,
       wb_start |-> FALSE, wb_end |-> FALSE, ignorecase |-> TRUE,
       severity |-> "medium", description |-> "Persona override attempt"],
      [alts |-> <<<<<<"p","r","e","t","e","n","d">>, <<"y","o","u">>, <<"a","r","e">>>>>>,
       wb_start |-> FALSE, wb_end |-> FALSE, ignorecase |-> TRUE,
       severity |-> "medium", description |-> "Persona override attempt"],
      [alts |-> <<<<<<"d","o">>, <<"a","n","y","t","h","i","n","g">>, <<"n","o","w">>>>>>,
       wb_start |-> FALSE, wb_end |-> FALSE, ignorecase |-> TRUE,
       severity |-> "high", description |-> "DAN jailbreak attempt"],
      [alts |-> <<<<<<"d","e","v","e","l","o","p","e","r">>, <<"m","o","d","e">>>>>>,
       wb_start |-> FALSE, wb_end |-> FALSE, ignorecase |-> TRUE,
       severity |-> "high", description |-> "Developer mode jailbreak attempt"],
      [alts |-> <<<<<<"j","a","i","l","b","r","e","a","k">>>>>>,
       wb_start |-> TRUE, wb_end |-> TRUE, ignorecase |-> TRUE,
       severity |-> "high", description |-> "Explicit jailbreak keyword"],
      [alts |-> <<<<<<"D","A","N">>>>>>,
       wb_start |-> TRUE, wb_end |-> TRUE, ignorecase |-> FALSE,
       severity |-> "medium", description |-> "Possible DAN jailbreak reference"]
    >>

\* _HOMOGLYPHS: (latin char, look-alike code point, script name)
_HOMOGLYPHS ==
    <<[latin |-> "a", lookalike |-> "\\u0430", script |-> "Cyrillic"],
      [latin |-> "c", lookalike |-> "\\u0441", script |-> "Cyrillic"],
      [latin |-> "e", lookalike |-> "\\u0435", script |-> "Cyrillic"],
      [latin |-> "o", lookalike |-> "\\u043e", script |-> "Cyrillic"],
      [latin |-> "p", lookalike |-> "\\u0440", script |-> "Cyrillic"],
      [latin |-> "x", lookalike |-> "\\u0445", script |-> "Cyrillic"],
      [latin |-> "y", lookalike |-> "\\u0443", script |-> "Cyrillic"],
      [latin |-> "s", lookalike |-> "\\u0455", script |-> "Cyrillic"],
      [latin |-> "i", lookalike |-> "\\u0456", script |-> "Cyrillic"],
      [latin |-> "A", lookalike |-> "\\u0410", script |-> "Cyrillic"],
      [latin |-> "B", lookalike |-> "\\u0412", script |-> "Cyrillic"],
      [latin |-> "C", lookalike |-> "\\u0421", script |-> "Cyrillic"],
      [latin |-> "E", lookalike |-> "\\u0415", script |-> "Cyrillic"],
      [latin |-> "H", lookalike |-> "\\u041d", script |-> "Cyrillic"],
      [latin |-> "K", lookalike |-> "\\u041a", script |-> "Cyrillic"],
      [latin |-> "M", lookalike |-> "\\u041c", script |-> "Cyrillic"],
      [latin |-> "O", lookalike |-> "\\u041e", script |-> "Cyrillic"],
      [latin |-> "P", lookalike |-> "\\u0420", script |-> "Cyrillic"],
      [latin |-> "T", lookalike |-> "\\u0422", script |-> "Cyrillic"],
      [latin |-> "X", lookalike |-> "\\u0425", script |-> "Cyrillic"],
      [latin |-> "o", lookalike |-> "\\u03bf", script |-> "Greek"],
      [latin |-> "v", lookalike |-> "\\u03bd", script |-> "Greek"]>>

_BEGIN_DELIMITER == <<"#","#","#"," ","B","E","G","I","N"," ","D","O","C","U","M","E","N","T"," ","#","#","#">>

_END_DELIMITER == <<"#","#","#"," ","E","N","D"," ","D","O","C","U","M","E","N","T"," ","#","#","#">>

_INVISIBLE_CHARS == {"\\u200b", "\\u200c", "\\u200d", "\\ufeff"}

_BIDI_RANGE ==
    {"\\u202a", "\\u202b", "\\u202c", "\\u202d", "\\u202e",
     "\\u2066", "\\u2067", "\\u2068", "\\u2069"}

\* U+E0001..U+E007F, of which the model's alphabet has the two ends
_TAG_RANGE == {"\\U000e0001", "\\U000e007f"}

_FORMAT_CHARS_KEEP == {"\\u00ad"}

\* unicodedata.category(ch) == "Cf" over the model's alphabet
CategoryCf ==
    _INVISIBLE_CHARS \cup _BIDI_RANGE \cup _TAG_RANGE \cup {"\\u00ad", "\\u2060"}

\* unicodedata.normalize("NFKC", ch): the fullwidth Latin capital A folds to
\* "A" and the ligature fi to "f", "i"; the other characters of the model's
\* alphabet are their own normal form.
NFKC(ch) ==
    IF ch = "\\uff21" THEN <<"A">>
    ELSE IF ch = "\\ufb01" THEN <<"f", "i">>
    ELSE <<ch>>

RECURSIVE Decomposed(_)
\* the compatibility decomposition of the text, character by character
Decomposed(text) ==
    IF text = <<>> THEN <<>> ELSE NFKC(Head(text)) \o Decomposed(Tail(text))

RECURSIVE Composed(_)
\* the canonical composition: "a" followed at once by the combining acute
\* accent U+0301 becomes U+00E1; a character between the two blocks it
Composed(text) ==
    IF Len(text) < 2 THEN text
    ELSE IF text[1] = "a" /\ text[2] = "\\u0301"
         THEN <<"\\u00e1">> \o Composed(SubSeq(text, 3, Len(text)))
         ELSE <<Head(text)>> \o Composed(Tail(text))

\* unicodedata.normalize("NFKC", text)
Normalize(text) == Composed(Decomposed(text))

\* the character survives the loop of _strip_unicode_threats
KeptChar(ch) ==
    /\ ch \notin _INVISIBLE_CHARS
    /\ ch \notin _BIDI_RANGE
    /\ ch \notin _TAG_RANGE
    /\ ~(ch \in CategoryCf /\ ch \notin _FORMAT_CHARS_KEEP)

\* ThreatSanitizer._strip_unicode_threats
_strip_unicode_threats(text) == SelectSeq(Normalize(text), KeptChar)

\* ThreatSanitizer._detect_homoglyphs
_detect_homoglyphs(text) ==
    IF ~\E i \in 1..Len(text) : IsLatin(text[i]) THEN <<>>
    ELSE LET present(h) ==
                 /\ \E i \in 1..Len(text) : text[i] = h.lookalike
             first(n) ==
                 \A m \in 1..(n - 1) : _HOMOGLYPHS[m].lookalike # _HOMOGLYPHS[n].lookalike
             hits == SelectSeq([n \in 1..Len(_HOMOGLYPHS) |->
                                   [h |-> _HOMOGLYPHS[n], first |-> first(n)]],
                               LAMBDA x : present(x.h) /\ x.first)
         IN [n \in 1..Len(hits) |->
                ThreatDetail("homoglyph", hits[n].h.script, "medium",
                             <<hits[n].h.lookalike>>)]

\* one alternative of a pattern matches at offset i, with its \b anchors
AltMatchEnd(text, pat, alt, i) ==
    LET anchored(e) ==
            IF e # -1 /\ (pat.wb_start => WordBoundary(text, i))
                      /\ (pat.wb_end => WordBoundary(text, e))
            THEN e ELSE -1
    IN anchored(MatchWordsAt(text, alt, i, pat.ignorecase))

\* pattern.search(text): <<start, end>> of the leftmost match, or <<>>
PatternSearch(text, pat) ==
    LET \* the end of the first alternative that matches at offset i, or -1
        first(ends) ==
            IF \A a \in 1..Len(ends) : ends[a] = -1 THEN -1
            ELSE ends[CHOOSE a \in 1..Len(ends) :
                          ends[a] # -1 /\ \A b \in 1..(a - 1) : ends[b] = -1]
        match_end(i) ==
            first([a \in 1..Len(pat.alts) |-> AltMatchEnd(text, pat, pat.alts[a], i)])
        span(i) == <<i, match_end(i)>>
        leftmost(starts) ==
            IF starts = {} THEN <<>>
            ELSE span(CHOOSE i \in starts : \A j \in starts : i <= j)
    IN leftmost({i \in 0..Len(text) : match_end(i) # -1})

\* ThreatSanitizer._detect_prompt_injection
_detect_prompt_injection(text) ==
    LET detail(pat, m) ==
            ThreatDetail("prompt_injection", pat.description, pat.severity,
                         Slice(text, m[1], m[2]))
        threats(found) ==
            [n \in 1..Len(found) |-> detail(found[n], PatternSearch(text, found[n]))]
    IN threats(SelectSeq(_INJECTION_PATTERNS,
                         LAMBDA pat : PatternSearch(text, pat) # <<>>))

\* ThreatSanitizer._detect_delimiter_injection
_detect_delimiter_injection(text) ==
    LET found == SelectSeq(<<_BEGIN_DELIMITER, _END_DELIMITER>>,
                           LAMBDA delimiter : Contains(text, delimiter))
    IN [n \in 1..Len(found) |->
           ThreatDetail("delimiter_injection", "Text contains reserved delimiter",
                        "high", found[n])]

\* ThreatSanitizer.sanitize
sanitize(text) ==
    LET SanitizeResult(cleaned, threats) ==
            [is_safe |-> \A n \in 1..Len(threats) : threats[n].severity # "high",
             threats |-> threats,
             cleaned_text |-> cleaned]
        scan(cleaned) ==
            SanitizeResult(cleaned,
                           _detect_homoglyphs(text)
                               \o _detect_prompt_injection(cleaned)
                               \o _detect_delimiter_injection(cleaned))
    IN scan(_strip_unicode_threats(text))

\* the `high_threats` list of process_prompt / process_document
high_threats(sanitize_result) ==
    SelectSeq(sanitize_result.threats, LAMBDA t : t.severity = "high")

\* ------------------------------------------------------------- PII detector

\* PIIEntity dataclass; the confidence is in hundredths
PIIEntity(text, label, start, end, confidence, gate) ==
    [text |-> text, label |-> label, start |-> start, end |-> end,
     confidence |-> confidence, gate |-> gate]

\* What the two recognisers can report in the model's texts: a surface form
\* and the label they give it.  Which of its occurrences a gate reports is
\* the recogniser's choice.
LEXICON ==
    <<[text |-> <<"A", "l">>, label |-> <<"P", "E", "R", "S", "O", "N">>],
      [text |-> <<"B", "o">>, label |-> <<"P", "E", "R", "S", "O", "N">>],
      [text |-> <<"N", "Y">>, label |-> <<"L", "O", "C", "A", "T", "I", "O", "N">>]>>

\* every occurrence of a lexicon form in text, as <<lexicon index, offset>>
Occurrences(text) ==
    {<<n, i>> \in (1..Len(LEXICON)) \X (0..Len(text)) : OccursAt(text, LEXICON[n].text, i)}

RECURSIVE SetToSeq(_)
\* the occurrences of a set, by offset
SetToSeq(occs) ==
    IF occs = {} THEN <<>>
    ELSE LET o == CHOOSE x \in occs :
                      \A y \in occs : x[2] < y[2] \/ (x[2] = y[2] /\ x[1] <= y[1])
         IN <<o>> \o SetToSeq(occs \ {o})

\* _gate_a_presidio_single: text[r.start:r.end], the mapped label, r.score
GateAEntity(text, occ) ==
    LET start == occ[2]
        end == occ[2] + Len(LEXICON[occ[1]].text)
    IN PIIEntity(Slice(text, start, end), LEXICON[occ[1]].label, start, end, 85, "presidio")

\* _gate_b_ner: ent.text, the mapped label, the fixed confidence 0.80
GateBEntity(text, occ) ==
    LET start == occ[2]
        end == occ[2] + Len(LEXICON[occ[1]].text)
    IN PIIEntity(Slice(text, start, end), LEXICON[occ[1]].label, start, end, 80, "ner")

\* the result lists one gate can return for text
GateAOutputs(text) ==
    {LET s == SetToSeq(occs) IN [k \in 1..Len(s) |-> GateAEntity(text, s[k])] :
         occs \in SUBSET Occurrences(text)}

GateBOutputs(text) ==
    {LET s == SetToSeq(occs) IN [k \in 1..Len(s) |-> GateBEntity(text, s[k])] :
         occs \in SUBSET Occurrences(text)}

\* key=lambda e: (-(e.end - e.start), -e.confidence)
MergeKeyBefore(a, b) ==
    \/ (a.end - a.start) > (b.end - b.start)
    \/ ((a.end - a.start) = (b.end - b.start) /\ a.confidence > b.confidence)

RECURSIVE MergeLoop(_, _)
\* the loop of _merge_detections over the sorted list, `merged` so far
MergeLoop(all_entities, merged) ==
    IF all_entities = <<>> THEN merged
    ELSE LET entity == Head(all_entities)
             overlaps == \E k \in 1..Len(merged) :
                             entity.start < merged[k].end /\ entity.end > merged[k].start
         IN MergeLoop(Tail(all_entities),
                      IF overlaps THEN merged ELSE Append(merged, entity))

\* PIIDetector._merge_detections
_merge_detections(gate_a, gate_b) ==
    StableSort(MergeLoop(StableSort(gate_a \o gate_b, MergeKeyBefore), <<>>),
               LAMBDA a, b : a.start < b.start)

\* PIIDetector.detect(text): the lists it can return
Detections(text) ==
    {_merge_detections(gate_a, gate_b) :
         gate_a \in GateAOutputs(text), gate_b \in GateBOutputs(text)}

\* what a gate does in its executor thread: it returns a list or it raises
GateReturned(entities) == [raised |-> FALSE, entities |-> entities]

GateRaised == [raised |-> TRUE, entities |-> <<>>]

\* PIIDetector.detect(text) for what the two gates did: asyncio.gather awaits
\* both and re-raises the exception of either; neither gate nor detect has
\* an except clause
detect(gate_a, gate_b) ==
    IF gate_a.raised \/ gate_b.raised
    THEN [raised |-> TRUE, entities |-> <<>>]
    ELSE [raised |-> FALSE, entities |-> _merge_detections(gate_a.entities, gate_b.entities)]

\* the Presidio entity type behind each form of the lexicon
LEXICON_TYPES == <<"PERSON", "PERSON", "LOCATION">>

PATTERN_ONLY_ENTITIES ==
    {"EMAIL_ADDRESS", "PHONE_NUMBER", "US_SSN", "CREDIT_CARD", "IP_ADDRESS", "URL",
     "IBAN_CODE", "US_BANK_NUMBER", "US_DRIVER_LICENSE", "US_PASSPORT",
     "MEDICAL_LICENSE", "CRYPTO", "LEGAL_CASE_NUMBER"}

\* _gate_a_presidio(text, patterns_only=True): the analyzer is asked for the
\* pattern-only entity types and reports no other
GateAPatternOutputs(text) ==
    {LET s == SetToSeq(occs) IN [k \in 1..Len(s) |-> GateAEntity(text, s[k])] :
         occs \in SUBSET {o \in Occurrences(text) :
                              LEXICON_TYPES[o[1]] \in PATTERN_ONLY_ENTITIES}}

\* PIIDetector.detect(text, skip_ner=True): Gate A only
DetectionsSkipNer(text) ==
    {_merge_detections(gate_a, <<>>) : gate_a \in GateAPatternOutputs(text)}

\* ------------------------------------------------------------ prompt filter

_ALWAYS_PII ==
    {<<"P", "E", "R", "S", "O", "N">>, <<"E", "M", "A", "I", "L">>,
     <<"P", "H", "O", "N", "E">>, <<"S", "S", "N">>,
     <<"C", "R", "E", "D", "I", "T", "_", "C", "A", "R", "D">>,
     <<"B", "A", "N", "K", "_", "A", "C", "C", "O", "U", "N", "T">>,
     <<"I", "B", "A", "N">>,
     <<"D", "R", "I", "V", "E", "R", "_", "L", "I", "C", "E", "N", "S", "E">>,
     <<"P", "A", "S", "S", "P", "O", "R", "T">>,
     <<"I", "P", "_", "A", "D", "D", "R", "E", "S", "S">>,
     <<"M", "E", "D", "I", "C", "A", "L", "_", "L", "I", "C", "E", "N", "S", "E">>}

_CONTEXT_DEPENDENT ==
    {<<"D", "A", "T", "E">>, <<"D", "A", "T", "E", "_", "T", "I", "M", "E">>,
     <<"L", "O", "C", "A", "T", "I", "O", "N">>, <<"O", "R", "G">>,
     <<"N", "O", "R", "P">>}

_CONTEXT_WINDOW == 60

\* _THRESHOLD_CONTEXT: the alternatives between \b( and )\b, `exceeds?` written out
_THRESHOLD_CONTEXT ==
    {<<"o","v","e","r">>, <<"u","n","d","e","r">>, <<"a","b","o","v","e">>,
     <<"b","e","l","o","w">>, <<"m","o","r","e"," ","t","h","a","n">>,
     <<"l","e","s","s"," ","t","h","a","n">>, <<"f","e","w","e","r"," ","t","h","a","n">>,
     <<"g","r","e","a","t","e","r"," ","t","h","a","n">>, <<"a","t"," ","l","e","a","s","t">>,
     <<"a","t"," ","m","o","s","t">>, <<"b","e","t","w","e","e","n">>,
     <<"e","x","c","e","e","d">>, <<"e","x","c","e","e","d","s">>,
     <<"o","l","d","e","r"," ","t","h","a","n">>,
     <<"y","o","u","n","g","e","r"," ","t","h","a","n">>,
     <<"h","i","g","h","e","r"," ","t","h","a","n">>,
     <<"l","o","w","e","r"," ","t","h","a","n">>}

\* _AGGREGATION_CONTEXT
_AGGREGATION_CONTEXT ==
    {<<"h","o","w"," ","m","a","n","y">>, <<"c","o","u","n","t">>,
     <<"a","v","e","r","a","g","e">>, <<"a","v","g">>, <<"m","e","a","n">>,
     <<"t","o","t","a","l">>, <<"s","u","m">>, <<"m","a","x">>, <<"m","i","n">>,
     <<"m","e","d","i","a","n">>, <<"t","o","p">>, <<"b","o","t","t","o","m">>,
     <<"f","i","r","s","t">>, <<"l","a","s","t">>, <<"h","i","g","h","e","s","t">>,
     <<"l","o","w","e","s","t">>, <<"o","l","d","e","s","t">>,
     <<"y","o","u","n","g","e","s","t">>, <<"l","a","r","g","e","s","t">>,
     <<"s","m","a","l","l","e","s","t">>, <<"p","e","r","c","e","n","t","i","l","e">>,
     <<"q","u","a","r","t","i","l","e">>,
     <<"s","t","a","n","d","a","r","d"," ","d","e","v","i","a","t","i","o","n">>,
     <<"s","t","d","e","v">>, <<"v","a","r","i","a","n","c","e">>}

\* _FILTER_CONTEXT, `records?` and `cases?` written out
_FILTER_CONTEXT ==
    {<<"g","r","o","u","p"," ","b","y">>, <<"b","y">>, <<"i","n">>, <<"f","r","o","m">>,
     <<"p","e","r">>, <<"f","o","r"," ","e","a","c","h">>,
     <<"b","r","e","a","k"," ","d","o","w","n">>, <<"s","e","g","m","e","n","t">>,
     <<"f","i","l","t","e","r">>, <<"w","h","e","r","e">>,
     <<"r","e","c","o","r","d"," ","f","r","o","m">>,
     <<"r","e","c","o","r","d","s"," ","f","r","o","m">>,
     <<"r","e","c","o","r","d"," ","i","n">>, <<"r","e","c","o","r","d","s"," ","i","n">>,
     <<"r","e","c","o","r","d"," ","a","f","t","e","r">>,
     <<"r","e","c","o","r","d","s"," ","a","f","t","e","r">>,
     <<"r","e","c","o","r","d"," ","b","e","f","o","r","e">>,
     <<"r","e","c","o","r","d","s"," ","b","e","f","o","r","e">>,
     <<"h","i","r","e","d"," ","i","n">>, <<"f","i","l","e","d"," ","i","n">>,
     <<"j","o","i","n","e","d"," ","i","n">>, <<"c","r","e","a","t","e","d"," ","i","n">>,
     <<"a","d","m","i","t","t","e","d"," ","i","n">>, <<"c","a","s","e"," ","f","r","o","m">>,
     <<"c","a","s","e","s"," ","f","r","o","m">>, <<"s","h","o","w"," ","a","l","l">>,
     <<"l","i","s","t"," ","a","l","l">>,
     <<"l","i","s","t"," ","e","v","e","r","y","o","n","e">>}

\* _RANGE_CONTEXT, its literal alternatives
_RANGE_WORDS ==
    {<<"b","e","t","w","e","e","n">>, <<"r","a","n","g","e">>}

\* _CURRENCY_RE, its word alternatives (case-sensitive)
_CURRENCY_WORDS ==
    {<<"d","o","l","l","a","r">>, <<"d","o","l","l","a","r","s">>, <<"e","u","r","o">>,
     <<"e","u","r","o","s">>, <<"p","o","u","n","d">>, <<"p","o","u","n","d","s">>,
     <<"t","h","o","u","s","a","n","d">>, <<"m","i","l","l","i","o","n">>,
     <<"b","i","l","l","i","o","n">>}

\* _TITLE_PATTERN, its alternatives in order
TITLES ==
    <<<<"m","r">>,
      <<"m","r","s">>,
      <<"m","s">>,
      <<"m","i","s","s">>,
      <<"d","r">>,
      <<"p","r","o","f">>,
      <<"j","u","d","g","e">>,
      <<"j","u","s","t","i","c","e">>,
      <<"h","o","n">>,
      <<"s","r">>,
      <<"j","r">>>>

\* string.punctuation; the grave accent is written by its code point
PUNCTUATION ==
    {"!", "\"", "#", "$", "%", "&", "'", "(", ")", "*", "+", ",", "-", ".", "/", ":",
     ";", "<", "=", ">", "?", "@", "[", "\\", "]", "^", "_",
     "\\u0060", "{", "|", "}", "~"}


\* re.search of \b(w1|w2|...)\b in ctx
WordSearch(ctx, words, ignorecase) ==
    \E w \in words : \E i \in 0..Len(ctx) :
        /\ LiteralAt(ctx, w, i, ignorecase)
        /\ WordBoundary(ctx, i)
        /\ WordBoundary(ctx, i + Len(w))

\* _RANGE_CONTEXT.search(ctx): between | range | from .+ to, inside \b...\b
RangeSearch(ctx) ==
    \/ WordSearch(ctx, _RANGE_WORDS, TRUE)
    \/ \E i \in 0..Len(ctx) : \E j \in (i + 6)..Len(ctx) :
           /\ LiteralAt(ctx, <<"f", "r", "o", "m", " ">>, i, TRUE)
           /\ WordBoundary(ctx, i)
           /\ LiteralAt(ctx, <<" ", "t", "o">>, j, TRUE)
           /\ WordBoundary(ctx, j + 3)
           /\ \A k \in (i + 6)..j : ctx[k] # "\n"

\* _CURRENCY_RE.search(ctx)
CurrencySearch(ctx) ==
    \/ \E i \in 1..Len(ctx) : ctx[i] \in {"$", "\\u20ac", "\\u00a3", "\\u20b9"}
    \/ \E i \in 1..(Len(ctx) - 1) :
           /\ IsDigit(ctx[i])
           /\ ctx[i + 1] \in {"K", "k", "M", "m", "B", "b"}
           /\ WordBoundary(ctx, i + 1)
    \/ WordSearch(ctx, _CURRENCY_WORDS, FALSE)

\* _PERCENTAGE_RE.search(ctx)
PercentageSearch(ctx) ==
    \/ \E i \in 1..Len(ctx) :
           IsDigit(ctx[i]) /\ SkipSpaces(ctx, i) < Len(ctx) /\ ctx[SkipSpaces(ctx, i) + 1] = "%"
    \/ WordSearch(ctx, {<<"p", "e", "r", "c", "e", "n", "t">>, <<"r", "a", "t", "e">>}, TRUE)

\* _get_context
_get_context(text, start, end) ==
    Slice(text, Max(0, start - _CONTEXT_WINDOW), Min(Len(text), end + _CONTEXT_WINDOW))

\* _is_standalone_number
_is_standalone_number(text) ==
    LET removed == {",", ".", "$", "\\u20ac", "\\u00a3", "\\u20b9", "%", "+", "-",
                    "K", "k", "M", "m"}
        stripped == SelectSeq(Strip(text, WHITESPACE), LAMBDA c : c \notin removed)
    IN stripped # <<>> /\ \A i \in 1..Len(stripped) : IsDigit(stripped[i])

\* _is_year_only
_is_year_only(text) ==
    LET stripped == Strip(text, WHITESPACE)
    IN /\ Len(stripped) = 4
       /\ SubSeq(stripped, 1, 2) \in {<<"1", "9">>, <<"2", "0">>}
       /\ IsDigit(stripped[3]) /\ IsDigit(stripped[4])

Abs(n) == IF n < 0 THEN -n ELSE n

\* _has_person_nearby
_has_person_nearby(text, start, end, all_entities) ==
    \E k \in 1..Len(all_entities) :
        /\ all_entities[k].label = <<"P", "E", "R", "S", "O", "N">>
        /\ (Abs(all_entities[k].start - end) < 80 \/ Abs(start - all_entities[k].end) < 80)

\* _filter_prompt_entities: the loop body reaches a `continue` that drops entity
Suppressed(text, entity, entities) ==
    LET ctx == _get_context(text, entity.start, entity.end)
        nearby == _has_person_nearby(text, entity.start, entity.end, entities)
        filter_ctx == WordSearch(ctx, _FILTER_CONTEXT, TRUE)
        aggregation_ctx == WordSearch(ctx, _AGGREGATION_CONTEXT, TRUE)
    IN /\ entity.label \notin _ALWAYS_PII
       /\ entity.label \in _CONTEXT_DEPENDENT
       /\ \/ /\ entity.label \in {<<"D", "A", "T", "E">>,
                                  <<"D", "A", "T", "E", "_", "T", "I", "M", "E">>}
             /\ \/ /\ _is_standalone_number(entity.text)
                   /\ \/ WordSearch(ctx, _THRESHOLD_CONTEXT, TRUE)
                      \/ aggregation_ctx
                      \/ CurrencySearch(ctx)
                      \/ PercentageSearch(ctx)
                      \/ RangeSearch(ctx)
                \/ _is_year_only(entity.text) /\ filter_ctx /\ ~nearby
                \/ (filter_ctx \/ RangeSearch(ctx)) /\ ~nearby
          \/ /\ entity.label = <<"L", "O", "C", "A", "T", "I", "O", "N">>
             /\ filter_ctx \/ aggregation_ctx
             /\ ~\E i \in 1..Len(entity.text) : IsDigit(entity.text[i])
          \/ /\ entity.label = <<"O", "R", "G">>
             /\ aggregation_ctx \/ filter_ctx
             /\ ~nearby

\* _filter_prompt_entities
_filter_prompt_entities(text, entities) ==
    SelectSeq(entities, LAMBDA entity : ~Suppressed(text, entity, entities))

\* ------------------------------------------------------------ entity mapper

\* the length of what _TITLE_PATTERN matches at the start of s, 0 for no match
TitleMatchLen(s) ==
    LET spaced(after, next) == IF next > after THEN next ELSE 0
        ends(t) ==
            LET after == IF Len(s) > Len(t) /\ s[Len(t) + 1] = "."
                         THEN Len(t) + 1 ELSE Len(t)
            IN IF LiteralAt(s, t, 0, TRUE) THEN spaced(after, SkipSpaces(s, after)) ELSE 0
        first(lens) ==
            IF \A n \in 1..Len(lens) : lens[n] = 0 THEN 0
            ELSE lens[CHOOSE n \in 1..Len(lens) :
                          lens[n] > 0 /\ \A m \in 1..(n - 1) : lens[m] = 0]
    IN first([n \in 1..Len(TITLES) |-> ends(TITLES[n])])

\* EntityMapper._normalize
_normalize(text) ==
    LET untitled(lowered) == Slice(lowered, TitleMatchLen(lowered), Len(lowered))
    IN Strip(untitled(Strip(Lower(text), WHITESPACE)), PUNCTUATION \cup {" "})

RECURSIVE Split(_)
\* str.split(): the maximal runs of non-whitespace
Split(s) ==
    LET t == LStrip(s, WHITESPACE)
    IN IF t = <<>> THEN <<>>
       ELSE LET n == IF \E i \in 1..Len(t) : t[i] \in WHITESPACE
                     THEN (CHOOSE i \in 1..Len(t) :
                               t[i] \in WHITESPACE /\ \A j \in 1..(i - 1) : t[j] \notin WHITESPACE) - 1
                     ELSE Len(t)
            IN <<SubSeq(t, 1, n)>> \o Split(SubSeq(t, n + 1, Len(t)))

\* EntityMapper._token_overlap
_token_overlap(tokens1, tokens2) ==
    Cardinality({tokens1[i] : i \in 1..Len(tokens1)} \cap {tokens2[i] : i \in 1..Len(tokens2)})

\* EntityMapper._find_match: the pseudonym, or <<>> for None
_find_match(vault, text, entity_type) ==
    IF get_pseudonym(vault, text) # <<>> THEN get_pseudonym(vault, text)
    ELSE LET matches(norm_text, real_value, pseudonym, norm_existing) ==
                 /\ ~(real_value # <<>> /\ Head(real_value) = "["
                                        /\ real_value[Len(real_value)] = "]")
                 /\ DictHas(vault.entries, pseudonym)
                 /\ DictGet(vault.entries, pseudonym).entity_type = entity_type
                 /\ \/ norm_text = norm_existing
                    \/ _token_overlap(Split(norm_text), Split(norm_existing)) >= 2
             first(hits) ==
                 IF hits = {} THEN <<>>
                 ELSE vault.forward[CHOOSE n \in hits : \A m \in hits : n <= m].v
             search(norm_text) ==
                 first({n \in 1..Len(vault.forward) :
                           matches(norm_text, vault.forward[n].k, vault.forward[n].v,
                                   _normalize(vault.forward[n].k))})
         IN search(_normalize(text))

\* resolve_prompt_entities were it to give the first span a pseudonym
resolve_prompt_entities_creating(vault, prompt_entities) ==
    IF prompt_entities = <<>> THEN vault
    ELSE add_entity(vault, Head(prompt_entities).text, Head(prompt_entities).label).vault

RECURSIVE resolve_prompt_entities(_, _)
\* EntityMapper.resolve_prompt_entities: the vault afterwards (the entities
\* are returned as they came)
resolve_prompt_entities(vault, prompt_entities) ==
    IF prompt_entities = <<>> THEN vault
    ELSE LET entity == Head(prompt_entities)
             forwarded(added, match_pseudonym) ==
                 [added EXCEPT
                    !.forward = DictSet(added.forward, entity.text, match_pseudonym)]
             aliased(match_pseudonym) ==
                 IF /\ match_pseudonym # <<>>
                    /\ has_real_value(vault, match_pseudonym)
                    /\ get_real_value(vault, match_pseudonym) # entity.text
                 THEN forwarded(add_alias(vault, match_pseudonym, entity.text),
                                match_pseudonym)
                 ELSE vault
         IN resolve_prompt_entities(aliased(_find_match(vault, entity.text, entity.label)),
                                    Tail(prompt_entities))

\* ---------------------------------------------------------- depseudonymiser

RECURSIVE UpperRunEnd(_, _)
\* the offset after the run of [A-Z_] characters that starts at offset i
UpperRunEnd(text, i) ==
    IF i < Len(text) /\ (IsUpper(text[i + 1]) \/ text[i + 1] = "_")
    THEN UpperRunEnd(text, i + 1) ELSE i

RECURSIVE DigitRunEnd(_, _)
\* the offset after the run of digits that starts at offset i
DigitRunEnd(text, i) ==
    IF i < Len(text) /\ IsDigit(text[i + 1]) THEN DigitRunEnd(text, i + 1) ELSE i

\* _PSEUDONYM_RE matched at offset i: the offset after the "]", or -1.  The
\* [A-Z_]+ run must end with the "_" that precedes the digits.
PseudonymEnd(text, i) ==
    IF ~(i < Len(text) /\ text[i + 1] = "[") THEN -1
    ELSE LET u == UpperRunEnd(text, i + 1)
             d == DigitRunEnd(text, u)
         IN IF u >= i + 3 /\ text[u] = "_" /\ d > u /\ d < Len(text) /\ text[d + 1] = "]"
            THEN d + 1 ELSE -1

RECURSIVE FindAllFrom(_, _)
\* _PSEUDONYM_RE.findall(text) from offset i: the group of each match
FindAllFrom(text, i) ==
    IF i >= Len(text) THEN <<>>
    ELSE LET e == PseudonymEnd(text, i)
         IN IF e = -1 THEN FindAllFrom(text, i + 1)
            ELSE <<Slice(text, i + 1, e - 1)>> \o FindAllFrom(text, e)

\* the orders sorted(set(found), key=len, reverse=True) can return: the set
\* is iterated in hash order, and the stable sort keeps that order among
\* pseudonyms of one length
UniqueOrders(found) ==
    LET unique == {found[i] : i \in 1..Len(found)}
        n == Cardinality(unique)
    IN {o \in [1..n -> unique] :
           /\ \A i, j \in 1..n : i # j => o[i] # o[j]
           /\ \A i, j \in 1..n : i < j => Len(o[i]) >= Len(o[j])}

\* _humanize_pseudonym were it to give the token back as it is
_humanize_pseudonym_as_written(pseudonym) == pseudonym

\* _humanize_pseudonym
_humanize_pseudonym(pseudonym) ==
    LET inner == Strip(pseudonym, {"[", "]"})
        parts == RSplit1(inner, "_")
        friendly(type_name) ==
            CASE type_name = <<"P", "R", "O", "F">>
                     -> <<"t", "h", "e", " ", "p", "r", "o", "f", "e", "s", "s", "o", "r">>
              [] type_name = <<"P", "R", "O", "F", "E", "S", "S", "O", "R">>
                     -> <<"t", "h", "e", " ", "p", "r", "o", "f", "e", "s", "s", "o", "r">>
              [] type_name = <<"A", "R", "T", "I", "C", "L", "E">>
                     -> <<"t", "h", "e", " ", "a", "r", "t", "i", "c", "l", "e">>
              [] type_name = <<"P", "A", "P", "E", "R">>
                     -> <<"t", "h", "e", " ", "p", "a", "p", "e", "r">>
              [] type_name = <<"S", "T", "U", "D", "Y">>
                     -> <<"t", "h", "e", " ", "s", "t", "u", "d", "y">>
              [] type_name = <<"R", "E", "P", "O", "R", "T">>
                     -> <<"t", "h", "e", " ", "r", "e", "p", "o", "r", "t">>
              [] type_name = <<"A", "U", "T", "H", "O", "R">>
                     -> <<"t", "h", "e", " ", "a", "u", "t", "h", "o", "r">>
              [] type_name = <<"R", "E", "S", "E", "A", "R", "C", "H", "E", "R">>
                     -> <<"t", "h", "e", " ", "r", "e", "s", "e", "a", "r", "c", "h", "e", "r">>
              [] type_name = <<"D", "O", "C", "T", "O", "R">>
                     -> <<"t", "h", "e", " ", "d", "o", "c", "t", "o", "r">>
              [] type_name = <<"C", "O", "M", "P", "A", "N", "Y">>
                     -> <<"t", "h", "e", " ", "c", "o", "m", "p", "a", "n", "y">>
              [] type_name = <<"P", "A", "R", "T", "Y">>
                     -> <<"t", "h", "e", " ", "p", "a", "r", "t", "y">>
              [] type_name = <<"C", "L", "I", "E", "N", "T">>
                     -> <<"t", "h", "e", " ", "c", "l", "i", "e", "n", "t">>
              [] type_name = <<"W", "I", "T", "N", "E", "S", "S">>
                     -> <<"t", "h", "e", " ", "w", "i", "t", "n", "e", "s", "s">>
              [] type_name = <<"J", "U", "D", "G", "E">>
                     -> <<"t", "h", "e", " ", "j", "u", "d", "g", "e">>
              [] type_name = <<"D", "E", "F", "E", "N", "D", "A", "N", "T">>
                     -> <<"t", "h", "e", " ", "d", "e", "f", "e", "n", "d", "a", "n", "t">>
              [] type_name = <<"P", "L", "A", "I", "N", "T", "I", "F", "F">>
                     -> <<"t", "h", "e", " ", "p", "l", "a", "i", "n", "t", "i", "f", "f">>
              [] OTHER -> inner
    IN IF Len(parts) = 2 /\ ParseInt(parts[2]) # -1 THEN friendly(parts[1]) ELSE inner

RECURSIVE RestoreResolved(_, _, _)
\* the first loop were it to replace the name inside the brackets
RestoreResolved_name_only(vault, acc, pseudonyms) ==
    IF pseudonyms = <<>> THEN acc
    ELSE LET bracketed == <<"[">> \o Head(pseudonyms) \o <<"]">>
         IN IF ~has_real_value(vault, bracketed)
            THEN RestoreResolved(vault,
                                 [acc EXCEPT !.unresolved = Append(acc.unresolved, bracketed)],
                                 Tail(pseudonyms))
            ELSE RestoreResolved(vault,
                                 [acc EXCEPT !.result = Replace(acc.result, Head(pseudonyms),
                                                                get_real_value(vault, bracketed))],
                                 Tail(pseudonyms))

\* restore, first loop: [result |-> the text, unresolved |-> the list]
RestoreResolved(vault, acc, pseudonyms) ==
    IF pseudonyms = <<>> THEN acc
    ELSE LET bracketed == <<"[">> \o Head(pseudonyms) \o <<"]">>
         IN IF ~has_real_value(vault, bracketed)
            THEN RestoreResolved(vault,
                                 [acc EXCEPT !.unresolved = Append(acc.unresolved, bracketed)],
                                 Tail(pseudonyms))
            ELSE LET real_value == get_real_value(vault, bracketed)
                     possessive == Replace(acc.result, bracketed \o <<"'", "s">>,
                                           real_value \o <<"'", "s">>)
                 IN RestoreResolved(vault,
                                    [acc EXCEPT !.result = Replace(possessive, bracketed, real_value)],
                                    Tail(pseudonyms))

RECURSIVE RestoreUnresolved(_, _)
\* restore, second loop
RestoreUnresolved(result, unresolved) ==
    IF unresolved = <<>> THEN result
    ELSE LET bracketed == Head(unresolved)
             label == _humanize_pseudonym(bracketed)
             possessive == Replace(result, bracketed \o <<"'", "s">>, label \o <<"'", "s">>)
         IN RestoreUnresolved(Replace(possessive, bracketed, label), Tail(unresolved))

\* restore without its second loop
RestoreIn_resolved_only(vault, text, unique_pseudonyms) ==
    RestoreResolved(vault, [result |-> text, unresolved |-> <<>>], unique_pseudonyms).result

\* Depseudonymizer.restore with unique_pseudonyms in the given order
RestoreIn(vault, text, unique_pseudonyms) ==
    LET first == RestoreResolved(vault, [result |-> text, unresolved |-> <<>>],
                                 unique_pseudonyms)
    IN RestoreUnresolved(first.result, first.unresolved)

\* Depseudonymizer.restore: the texts it can return
restore(vault, text) ==
    {RestoreIn(vault, text, order) : order \in UniqueOrders(FindAllFrom(text, 0))}

\* ----------------------------------------------------------------- pipeline

\* process_prompt as it would be with the detection and the pseudonymisation
\* done before the high-severity check
process_prompt_detect_first(vault, prompt, entities) ==
    LET returned(sanitize_result, kept, blinded) ==
            [raised |-> high_threats(sanitize_result) # <<>>,
             threats |-> IF high_threats(sanitize_result) # <<>>
                         THEN high_threats(sanitize_result) ELSE sanitize_result.threats,
             vault |-> blinded.vault, blinded_text |-> blinded.text,
             cleaned |-> sanitize_result.cleaned_text,
             kept |-> kept, detect_calls |-> 1]
        pseudonymized(sanitize_result, kept) ==
            returned(sanitize_result, kept,
                     pseudonymize_text(resolve_prompt_entities(vault, kept),
                                       sanitize_result.cleaned_text, kept))
        filtered(sanitize_result) ==
            pseudonymized(sanitize_result,
                          _filter_prompt_entities(sanitize_result.cleaned_text, entities))
    IN filtered(sanitize(prompt))

\* BlinderPipeline.process_prompt for the detector output `entities` (of the
\* cleaned text).  raised: HighSeverityThreatError, before any detection;
\* detect_calls: the calls of the detector the run made.
process_prompt(vault, prompt, entities) ==
    LET returned(sanitize_result, kept, blinded) ==
            IF high_threats(sanitize_result) # <<>>
            THEN [raised |-> TRUE, threats |-> high_threats(sanitize_result),
                  vault |-> vault, blinded_text |-> <<>>,
                  cleaned |-> sanitize_result.cleaned_text,
                  kept |-> <<>>, detect_calls |-> 0]
            ELSE [raised |-> FALSE, threats |-> sanitize_result.threats,
                  vault |-> blinded.vault, blinded_text |-> blinded.text,
                  cleaned |-> sanitize_result.cleaned_text,
                  kept |-> kept, detect_calls |-> 1]
        pseudonymized(sanitize_result, kept) ==
            returned(sanitize_result, kept,
                     pseudonymize_text(resolve_prompt_entities(vault, kept),
                                       sanitize_result.cleaned_text, kept))
        filtered(sanitize_result) ==
            pseudonymized(sanitize_result,
                          _filter_prompt_entities(sanitize_result.cleaned_text, entities))
    IN filtered(sanitize(prompt))

\* BlinderPipeline.process_document for the detector output `entities`
process_document(vault, text, entities) ==
    LET returned(sanitize_result, blinded) ==
            IF high_threats(sanitize_result) # <<>>
            THEN [raised |-> TRUE, threats |-> high_threats(sanitize_result),
                  vault |-> vault, blinded_text |-> <<>>,
                  cleaned |-> sanitize_result.cleaned_text,
                  kept |-> <<>>, detect_calls |-> 0]
            ELSE [raised |-> FALSE, threats |-> sanitize_result.threats,
                  vault |-> blinded.vault, blinded_text |-> blinded.text,
                  cleaned |-> sanitize_result.cleaned_text,
                  kept |-> entities, detect_calls |-> 1]
        pseudonymized(sanitize_result) ==
            returned(sanitize_result,
                     pseudonymize_text(vault, sanitize_result.cleaned_text, entities))
    IN pseudonymized(sanitize(text))

\* ------------------------------------------------------------ LLM payloads

\* A fixed block of prompt text is written as one symbol of the text.
BASE_PROMPT == "<BASE_PROMPT>"

ROUTER_PROMPT == "<ROUTER_PROMPT>"

TITLE_PROMPT == "<TITLE_PROMPT>"

DOCUMENTS_NOTE == "<The above documents have been provided for analysis...>"

DOCUMENTS_ACK == "<I have received the documents...>"

SUPPORTED_DOMAINS ==
    <<<<"l","e","g","a","l">>, <<"f","i","n","a","n","c","e">>,
      <<"h","e","a","l","t","h","c","a","r","e">>, <<"h","r">>,
      <<"g","e","n","e","r","a","l">>>>

\* EXPERT_PROMPTS.get(domain, EXPERT_PROMPTS["general"]), as one symbol
ExpertPrompt(domain) ==
    CASE domain = <<"l","e","g","a","l">> -> "<EXPERT_PROMPTS[legal]>"
      [] domain = <<"f","i","n","a","n","c","e">> -> "<EXPERT_PROMPTS[finance]>"
      [] domain = <<"h","e","a","l","t","h","c","a","r","e">> -> "<EXPERT_PROMPTS[healthcare]>"
      [] domain = <<"h","r">> -> "<EXPERT_PROMPTS[hr]>"
      [] OTHER -> "<EXPERT_PROMPTS[general]>"

\* get_system_prompt: f"{BASE_PROMPT}\n{expert}\n"
get_system_prompt(domain) == <<BASE_PROMPT, "\n", ExpertPrompt(domain), "\n">>

\* len() of one symbol of a text: a fixed block counts its characters
SymbolLen(c) ==
    CASE c = BASE_PROMPT -> 1703
      [] c = "<EXPERT_PROMPTS[legal]>" -> 385
      [] c = "<EXPERT_PROMPTS[finance]>" -> 395
      [] c = "<EXPERT_PROMPTS[healthcare]>" -> 396
      [] c = "<EXPERT_PROMPTS[hr]>" -> 408
      [] c = "<EXPERT_PROMPTS[general]>" -> 150
      [] OTHER -> 1

RECURSIVE TextLen(_)
\* len(text)
TextLen(text) == IF text = <<>> THEN 0 ELSE SymbolLen(Head(text)) + TextLen(Tail(text))

\* ContextBuilder._estimate_tokens
_estimate_tokens(text) == TextLen(text) \div 4

RECURSIVE SumTokens(_)
\* sum(_estimate_tokens(t) for t in texts)
SumTokens(texts) ==
    IF texts = <<>> THEN 0 ELSE _estimate_tokens(Head(texts)) + SumTokens(Tail(texts))

RECURSIVE Join(_, _)
\* sep.join(parts)
Join(parts, sep) ==
    IF parts = <<>> THEN <<>>
    ELSE IF Len(parts) = 1 THEN parts[1]
         ELSE parts[1] \o sep \o Join(Tail(parts), sep)

\* a message of the list sent to the LLM
Message(role, content) == [role |-> role, content |-> content]

\* ContextBuilder._build_stuffed with no pseudonym legend
_build_stuffed(system_prompt, doc_content, history, new_prompt) ==
    <<Message("system", system_prompt)>>
        \o (IF doc_content # <<>>
            THEN <<Message("user",
                           <<"#","#","#"," ","B","E","G","I","N"," ","D","O","C","U","M","E","N","T"," ","#","#","#">> \o <<"\n">>
                               \o doc_content \o <<"\n">>
                               \o <<"#","#","#"," ","E","N","D"," ","D","O","C","U","M","E","N","T"," ","#","#","#">> \o <<"\n">>
                               \o <<"\n", DOCUMENTS_NOTE>>),
                   Message("assistant", <<DOCUMENTS_ACK>>)>>
            ELSE <<>>)
        \o [i \in 1..Len(history) |-> Message(history[i].role, history[i].content)]
        \o <<Message("user", new_prompt)>>

\* ContextBuilder._combine_documents
_combine_documents(documents) ==
    Join([i \in 1..Len(documents) |->
             <<"-","-","-"," ","D","o","c","u","m","e","n","t"," ">> \o IntToStr(i) \o <<" ","-","-","-">> \o <<"\n">>
                 \o documents[i]],
         <<"\n", "\n">>)

\* SourceMeta(index, filename, document_id), the document id left out
SourceMeta(index, filename) == [index |-> index, filename |-> filename]

\* the documents in stuff mode, each under its `[Source N] (filename):` label
LabelledDocuments(blinded_documents, source_metadata) ==
    Join([i \in 1..Len(blinded_documents) |->
             IF i <= Len(source_metadata)
             THEN <<"[","S","o","u","r","c","e"," ">> \o IntToStr(source_metadata[i].index) \o <<"]"," ","(">>
                      \o source_metadata[i].filename \o <<")",":">> \o <<"\n">>
                      \o blinded_documents[i]
             ELSE <<"-","-","-"," ","D","o","c","u","m","e","n","t"," ">> \o IntToStr(i) \o <<" ","-","-","-">> \o <<"\n">>
                      \o blinded_documents[i]],
         <<"\n", "\n">>)

\* ContextBuilder.build_messages in stuff mode (retrieved_chunks is None) for
\* the context window the client reports: the messages, or <<>> when the
\* content does not fit the window (the keyword retrieval then takes over)
build_messages(blinded_documents, conversation_history, new_prompt, domain, source_metadata, context_window) ==
    LET system_prompt == get_system_prompt(domain)
        max_tokens == (context_window * 8) \div 10
        doc_text == LabelledDocuments(blinded_documents, source_metadata)
        total_estimate ==
            _estimate_tokens(system_prompt \o doc_text \o new_prompt)
                + SumTokens([i \in 1..Len(conversation_history) |->
                                conversation_history[i].content])
    IN IF total_estimate < max_tokens
       THEN _build_stuffed(system_prompt, doc_text, conversation_history, new_prompt)
       ELSE <<>>

\* the characters json.dumps writes for one character of a string
JsonEscape(c) ==
    CASE c = "\"" -> <<"\\", "\"">>
      [] c = "\\" -> <<"\\", "\\">>
      [] c = "\n" -> <<"\\", "n">>
      [] OTHER -> <<c>>

RECURSIVE JsonString(_)
JsonString(s) == IF s = <<>> THEN <<>> ELSE JsonEscape(Head(s)) \o JsonString(Tail(s))

\* the characters of a role name
RoleText(role) ==
    CASE role = "system" -> <<"s","y","s","t","e","m">>
      [] role = "user" -> <<"u","s","e","r">>
      [] role = "assistant" -> <<"a","s","s","i","s","t","a","n","t">>

\* json.dumps(llm_messages, ensure_ascii=False)
json_dumps(messages) ==
    <<"[">>
        \o Join([i \in 1..Len(messages) |->
                    <<"{","\"","r","o","l","e","\"",":"," ","\"">> \o RoleText(messages[i].role)
                        \o <<"\"",","," ","\"","c","o","n","t","e","n","t","\"",":"," ","\"">> \o JsonString(messages[i].content)
                        \o <<"\"","}">>],
                <<",", " ">>)
        \o <<"]">>

\* hashlib.sha256(text.encode()).hexdigest(): one digest per text
sha256(text) == [sha256 |-> text]

\* detect_domain, the messages it sends
DomainMessages(text) == <<Message("system", <<ROUTER_PROMPT>>), Message("user", text)>>

\* detect_domain, the domain it makes of the reply: result.strip().lower().rstrip(".")
\* when that is a supported domain, else "general"
DomainOfReply(result) ==
    LET domain == RStrip(Lower(Strip(result, WHITESPACE)), {"."})
    IN IF \E i \in 1..Len(SUPPORTED_DOMAINS) : SUPPORTED_DOMAINS[i] = domain
       THEN domain ELSE <<"g","e","n","e","r","a","l">>

\* the title request of step 14
TitleMessages(blinded_prompt) ==
    <<Message("system", <<TITLE_PROMPT>>), Message("user", blinded_prompt)>>

\* blinded_title.strip().strip('"').strip("'").rstrip(".")
CleanTitle(blinded_title) ==
    RStrip(Strip(Strip(Strip(blinded_title, WHITESPACE), {"\""}), {"'"}), {"."})

\* ------------------------------------------------------- session and inputs

\* settings.blinder_master_key and the salt create_session gave the session
MASTER_KEY == "blinder_master_key"

SESSION_SALT == "session_salt"

\* the chat requests made on the session
CHATS == {"r1", "r2"}

HI_AL == <<"H", "i", " ", "A", "l">>

HI_BO == <<"H", "i", " ", "B", "o">>

JAILBREAK == <<"j", "a", "i", "l", "b", "r", "e", "a", "k">>

\* a message that holds the text of a pseudonym token
TYPED_TOKEN == <<"[", "P", "E", "R", "S", "O", "N", "_", "1", "]">>

\* body.message of a request
MESSAGES(r) == IF r = "r1" THEN {HI_AL, JAILBREAK} ELSE {HI_BO, TYPED_TOKEN}

\* the one upload made on the session: file.filename and the extracted text
UPLOAD_FILENAME == <<"A", "l", ".", "t", "x", "t">>

UPLOAD_TEXT == <<"B", "o">>

\* the texts given to the pipeline of PipeSpec
TEXTS ==
    {<<"A", "l", " ", "A", "l">>, <<"i", "n", " ", "N", "Y">>, HI_BO, JAILBREAK,
     <<"A", "\\u200b", "l">>, <<"a", "\\u200b", "\\u0301">>}

GENERAL == <<"g", "e", "n", "e", "r", "a", "l">>

\* ------------------------------------------------------------------- state

VARIABLES
    db,        \* the committed rows of the session
    req,       \* the chat requests: the locals of event_generator and its position
    events,    \* the SSE events each chat request has emitted
    llm_log,   \* the calls each chat request has made to the LLM client
    up,        \* the upload: the locals of process_document and its position
    pipe,      \* PipeSpec: one vault and the last pipeline call made on it
    vt,        \* VaultSpec: one vault and the calls made of its operations
    svc        \* DocSpec: a call of a document service function and its position

vars == <<db, req, events, llm_log, up, pipe, vt, svc>>

\* the locals of a chat request that has not begun
IdleRequest ==
    [pc |-> "idle", message |-> <<>>, session_domain |-> <<>>, nloaded |-> 0,
     after |-> {}, vault |-> EmptyVault, blinded_prompt |-> <<>>, threats |-> <<>>,
     detect_calls |-> 0, created |-> <<>>, uses |-> {}, user_msg |-> 0,
     conversation_history |-> <<>>, documents |-> <<>>, domain |-> <<>>,
     detected_domain |-> <<>>, llm_messages |-> <<>>, full_blinded_response |-> <<>>,
     chunks |-> 0, restored_response |-> <<>>, assistant_msg |-> 0,
     existing_pseudonyms |-> {}, generated_title |-> <<>>, raised |-> <<>>]

\* the locals of the upload before it begins
IdleUpload ==
    [pc |-> "idle", nloaded |-> 0, vault |-> EmptyVault, blinded_text |-> <<>>,
     pii_count |-> 0, created |-> <<>>, uses |-> {}]

\* the record of a call of a vault operation, before any call
NoVaultCall == [kind |-> "none", arg |-> [text |-> <<>>], before |-> EmptyVault,
                result |-> <<>>, raised |-> FALSE]

\* a service function that has not been called
IdleService ==
    [pc |-> "idle", fn |-> "none", text |-> <<>>, chunk_size |-> 0, overlap |-> 0,
     words |-> <<>>, start |-> 0, chunks |-> <<>>, odd |-> FALSE,
     blinded_prompt |-> <<>>, blinded_documents |-> <<>>,
     tabular_result |-> [is_none |-> TRUE, success |-> FALSE, context |-> <<>>,
                         query_type |-> "none"],
     retrieved_chunks |-> <<>>, step |-> "none"]

\* the record of a pipeline call, before any call
NoCall ==
    [kind |-> "none", text |-> <<>>, cleaned |-> <<>>, kept |-> <<>>,
     blinded_text |-> <<>>, raised |-> FALSE]

\* A session just created: no rows; its domain is the column default, or the
\* empty string a create request may carry (schemas/api.py puts no check on it).
Init ==
    /\ \E domain \in {<<>>, GENERAL} :
           db = [vault_entries |-> <<>>, messages |-> <<>>, documents |-> <<>>,
                 audit_logs |-> <<>>, domain |-> domain, title |-> <<>>]
    /\ req = [r \in CHATS |-> IdleRequest]
    /\ events = [r \in CHATS |-> <<>>]
    /\ llm_log = [r \in CHATS |-> <<>>]
    /\ up = IdleUpload
    /\ pipe = [vault |-> EmptyVault, calls |-> 0, last |-> NoCall]
    /\ vt = [vault |-> EmptyVault, calls |-> 0, only_add_entity |-> TRUE,
             first |-> <<>>, last |-> NoVaultCall]
    /\ svc = IdleService

\* ------------------------------------------------------ tabular uploads

SEPARATOR == <<" ", "|", " ">>

SEP_LEN == 3

SAMPLE_SIZE == 5

\* "\n".join(SEPARATOR.join(row) for row in parsed_rows)
TableText(rows) ==
    Join([i \in 1..Len(rows) |-> Join(rows[i], SEPARATOR)], <<"\n">>)

\* the columns of the header
Columns(rows) == 1..Len(rows[1])

\* sample_values of a column: its non-blank cells in the first SAMPLE_SIZE
\* data rows
SampleValues(rows, col) ==
    LET data_rows == SubSeq(rows, 2, Min(Len(rows), 1 + SAMPLE_SIZE))
        there == SelectSeq(data_rows,
                           LAMBDA row : col <= Len(row) /\ Strip(row[col], WHITESPACE) # <<>>)
    IN [i \in 1..Len(there) |-> there[i][col]]

\* Counter(e.label for e in entities).most_common(1)[0][0]: the label counted
\* most often, the one met first among equals
DominantType(entities) ==
    LET count(label) == Cardinality({k \in 1..Len(entities) : entities[k].label = label})
        best == CHOOSE i \in 1..Len(entities) :
                    /\ \A k \in 1..Len(entities) :
                           count(entities[k].label) <= count(entities[i].label)
                    /\ \A k \in 1..(i - 1) :
                           count(entities[k].label) < count(entities[i].label)
    IN entities[best].label

\* _detect_pii_columns: the dicts it can return, as the entity type of each
\* column and <<>> for a column that is not a key
PiiColumnsOutputs(rows) ==
    IF Len(rows) < 2 THEN {[col \in Columns(rows) |-> <<>>]}
    ELSE {pii_columns \in [Columns(rows) -> {<<>>} \cup {LEXICON[n].label : n \in 1..Len(LEXICON)}] :
              \A col \in Columns(rows) :
                  IF SampleValues(rows, col) = <<>> THEN pii_columns[col] = <<>>
                  ELSE \E entities \in Detections(Join(SampleValues(rows, col), <<"\n">>)) :
                           pii_columns[col] = IF entities = <<>> THEN <<>>
                                              ELSE DominantType(entities)}

RECURSIVE TextOffset(_, _)
\* text_offset when the loop of _build_column_entities comes to the row
TextOffset(rows, row_idx) ==
    IF row_idx = 1 THEN 0
    ELSE TextOffset(rows, row_idx - 1) + Len(Join(rows[row_idx - 1], SEPARATOR)) + 1

RECURSIVE ColOffset(_, _, _)
\* col_offset when the inner loop comes to the cell
ColOffset(rows, row_idx, col_idx) ==
    IF col_idx = 1 THEN TextOffset(rows, row_idx)
    ELSE ColOffset(rows, row_idx, col_idx - 1) + Len(rows[row_idx][col_idx - 1]) + SEP_LEN

\* _build_column_entities: an entity for every non-blank cell of a PII
\* column, the header row left out
_build_column_entities(full_text, rows, pii_columns) ==
    LET cell(row_idx, col_idx) ==
            PIIEntity(rows[row_idx][col_idx], pii_columns[col_idx],
                      ColOffset(rows, row_idx, col_idx),
                      ColOffset(rows, row_idx, col_idx) + Len(rows[row_idx][col_idx]),
                      90, "column")
        of_row(row_idx) ==
            LET cols == SelectSeq([c \in 1..Len(rows[row_idx]) |-> c],
                                  LAMBDA c : /\ c \in DOMAIN pii_columns
                                             /\ pii_columns[c] # <<>>
                                             /\ Strip(rows[row_idx][c], WHITESPACE) # <<>>)
            IN [k \in 1..Len(cols) |-> cell(row_idx, cols[k])]
    IN Concat([row_idx \in 1..Len(rows) |-> IF row_idx = 1 THEN <<>> ELSE of_row(row_idx)])

\* BlinderPipeline.process_document_with_entities; `redone` is what the
\* pattern-only detection returns when it is run on the cleaned text
process_document_with_entities(vault, text, entities, redone) ==
    LET returned(sanitize_result, kept, blinded) ==
            IF high_threats(sanitize_result) # <<>>
            THEN [raised |-> TRUE, threats |-> high_threats(sanitize_result),
                  vault |-> vault, blinded_text |-> <<>>,
                  cleaned |-> sanitize_result.cleaned_text, kept |-> <<>>]
            ELSE [raised |-> FALSE, threats |-> sanitize_result.threats,
                  vault |-> blinded.vault, blinded_text |-> blinded.text,
                  cleaned |-> sanitize_result.cleaned_text, kept |-> kept]
        pseudonymized(sanitize_result, kept) ==
            returned(sanitize_result, kept,
                     pseudonymize_text(vault, sanitize_result.cleaned_text, kept))
        chosen(sanitize_result) ==
            pseudonymized(sanitize_result,
                          IF sanitize_result.cleaned_text # text THEN redone ELSE entities)
    IN chosen(sanitize(text))

\* the rows of the tabular files that are uploaded: a header and data rows
TABLES ==
    {<<<<<<"n">>, <<"c">>>>, <<<<"A", "l">>, <<"x">>>>, <<<<"B", "o">>, <<" ">>>>>>,
     <<<<<<"n">>, <<"c">>>>, <<<<"A", "l">>, <<"\\u200b", "x">>>>>>}

\* ------------------------------------------- the pipeline on one vault

\* the span, label and text of each entity, as the vault uses them
Spans(entities) ==
    [i \in 1..Len(entities) |->
        [text |-> entities[i].text, label |-> entities[i].label,
         start |-> entities[i].start, end |-> entities[i].end]]

\* the vault and the record of the call after a pipeline call returned `out`
Called(kind, text, out) ==
    [vault |-> out.vault, calls |-> pipe.calls + 1,
     last |-> [kind |-> kind, text |-> text, cleaned |-> out.cleaned,
               kept |-> Spans(out.kept), blinded_text |-> out.blinded_text,
               raised |-> out.raised]]

\* a call of BlinderPipeline.process_document on the vault
PipelineProcessDocument(text) ==
    /\ pipe.calls < MaxCalls
    /\ \E entities \in Detections(_strip_unicode_threats(text)) :
           pipe' = Called("document", text, process_document(pipe.vault, text, entities))
    /\ UNCHANGED <<db, req, events, llm_log, up, vt, svc>>

\* a call of BlinderPipeline.process_prompt on the vault
PipelineProcessPrompt(text) ==
    /\ pipe.calls < MaxCalls
    /\ \E entities \in Detections(_strip_unicode_threats(text)) :
           pipe' = Called("prompt", text, process_prompt(pipe.vault, text, entities))
    /\ UNCHANGED <<db, req, events, llm_log, up, vt, svc>>

\* the tabular branch of process_document (document_service) up to the
\* blinded text: the columns are classified on a sample, every cell of a PII
\* column becomes an entity, the patterns are run on the full text, and the
\* merged entities go to process_document_with_entities
PipelineProcessTabular(rows) ==
    LET text == TableText(rows)
        called(pii_columns, out) ==
            pipe' = [vault |-> out.vault, calls |-> pipe.calls + 1,
                     last |-> [kind |-> "tabular", text |-> text, cleaned |-> out.cleaned,
                               kept |-> Spans(out.kept), blinded_text |-> out.blinded_text,
                               raised |-> out.raised,
                               rows |-> rows, pii_columns |-> pii_columns]]
        column_entities(pii_columns) ==
            IF \E col \in Columns(rows) : pii_columns[col] # <<>>
            THEN _build_column_entities(text, rows, pii_columns)
            ELSE <<>>
    IN /\ pipe.calls < MaxCalls
       /\ \E pii_columns \in PiiColumnsOutputs(rows) :
              \E pattern_entities \in DetectionsSkipNer(text) :
                  \E redone \in DetectionsSkipNer(_strip_unicode_threats(text)) :
                      called(pii_columns,
                             process_document_with_entities(
                                 pipe.vault, text,
                                 _merge_detections(column_entities(pii_columns),
                                                   pattern_entities),
                                 redone))
       /\ UNCHANGED <<db, req, events, llm_log, up, vt, svc>>

\* a call of process_document or process_prompt during which exactly one of
\* the two gates raises: the sanitiser has run and found no high threat; what
\* detect raises is caught nowhere in the pipeline and ends the call.  `gates`
\* records what each gate did.
PipelineGateRaises(kind, text) ==
    LET sanitize_result == sanitize(text)
        cleaned == sanitize_result.cleaned_text
        failed(gate_a, gate_b) ==
            pipe' = [vault |-> pipe.vault, calls |-> pipe.calls + 1,
                     last |-> [kind |-> kind, text |-> text, cleaned |-> cleaned,
                               kept |-> <<>>, blinded_text |-> <<>>, raised |-> TRUE,
                               gates |-> [gate_a |-> gate_a, gate_b |-> gate_b]]]
        returned(gate_a, gate_b, out) ==
            pipe' = [vault |-> out.vault, calls |-> pipe.calls + 1,
                     last |-> [kind |-> kind, text |-> text, cleaned |-> out.cleaned,
                               kept |-> Spans(out.kept), blinded_text |-> out.blinded_text,
                               raised |-> out.raised,
                               gates |-> [gate_a |-> gate_a, gate_b |-> gate_b]]]
        detected(gate_a, gate_b, entities) ==
            IF entities.raised THEN failed(gate_a, gate_b)
            ELSE returned(gate_a, gate_b,
                          IF kind = "document"
                          THEN process_document(pipe.vault, text, entities.entities)
                          ELSE process_prompt(pipe.vault, text, entities.entities))
    IN /\ pipe.calls < MaxCalls
       /\ high_threats(sanitize_result) = <<>>
       /\ \E gate_a \in {GateRaised} \cup {GateReturned(e) : e \in GateAOutputs(cleaned)} :
              \E gate_b \in {GateRaised} \cup {GateReturned(e) : e \in GateBOutputs(cleaned)} :
                  /\ gate_a.raised # gate_b.raised
                  /\ detected(gate_a, gate_b, detect(gate_a, gate_b))
       /\ UNCHANGED <<db, req, events, llm_log, up, vt, svc>>

PipeNext ==
    \/ \E text \in TEXTS : PipelineProcessDocument(text)
    \/ \E text \in TEXTS : PipelineProcessPrompt(text)
    \/ \E kind \in {"document", "prompt"}, text \in TEXTS : PipelineGateRaises(kind, text)
    \/ \E rows \in TABLES : PipelineProcessTabular(rows)

PipeSpec == Init /\ [][PipeNext]_vars

\* --------------------------------------------------- C2: what blinding removes

RECURSIVE ReplaceSpans(_, _, _, _)
\* text from offset `from` on, in which each span of `spans` (in the order of
\* their offsets) is replaced by the pseudonym the vault binds to its text
ReplaceSpans(vault, text, spans, from) ==
    IF spans = <<>> THEN Slice(text, from, Len(text))
    ELSE Slice(text, from, Head(spans).start)
             \o get_pseudonym(vault, Head(spans).text)
             \o ReplaceSpans(vault, text, Tail(spans), Head(spans).end)

\* the last pipeline call returned a blinded text
Returned == pipe.last.kind # "none" /\ ~pipe.last.raised

MaxOps == 3

PERSON == <<"P", "E", "R", "S", "O", "N">>

ORG == <<"O", "R", "G">>

AL == <<"A", "l">>

BO == <<"B", "o">>

CY == <<"C", "y">>

DR_AL == <<"D", "r", " ", "A", "l">>

\* a literal pseudonym token followed by a name
TOKEN_AL == FormatPseudonym(PERSON, 1) \o <<" ">> \o AL

\* the entity lists load_entries is given: rows as a session stores them
STORED_ENTRIES ==
    {<<VaultEntry(PERSON, FormatPseudonym(PERSON, 3), AL, <<>>)>>,
     <<VaultEntry(PERSON, FormatPseudonym(PERSON, 1), AL, <<DR_AL>>),
       VaultEntry(PERSON, FormatPseudonym(PERSON, 10), BO, <<>>)>>,
     <<VaultEntry(PERSON, FormatPseudonym(PERSON, 1), AL, <<>>),
       VaultEntry(PERSON, FormatPseudonym(PERSON, 2), AL, <<>>)>>}

\* the real values and types add_entity is given
ADDED == {<<AL, PERSON>>, <<BO, PERSON>>, <<CY, PERSON>>, <<AL, ORG>>}

\* a span of text as the detector reports it
Span(text, label, start, end) ==
    PIIEntity(Slice(text, start, end), label, start, end, 85, "presidio")

\* the texts and the spans reported in them that the vault is given
SPANNED ==
    {[text |-> AL \o <<" ">> \o BO,
      spans |-> <<Span(AL \o <<" ">> \o BO, PERSON, 0, 2),
                  Span(AL \o <<" ">> \o BO, PERSON, 3, 5)>>],
     [text |-> AL, spans |-> <<Span(AL, ORG, 0, 2)>>],
     [text |-> DR_AL, spans |-> <<Span(DR_AL, PERSON, 0, 5)>>],
     [text |-> TOKEN_AL, spans |-> <<Span(TOKEN_AL, PERSON, 11, 13)>>]}

\* the answers restore is given, each as the pieces it is made of
ANSWERS ==
    {<<FormatPseudonym(PERSON, 10), <<" ">>, FormatPseudonym(PERSON, 1), <<".">>>>,
     <<FormatPseudonym(PERSON, 1), <<"'", "s", " ">>, FormatPseudonym(PERSON, 10),
       FormatPseudonym(PERSON, 1)>>}

\* answers that hold tokens no vault of the model binds, a token between
\* brackets, and no token at all
INVENTED ==
    {<<FormatPseudonym(<<"P", "R", "O", "F">>, 1), <<"'", "s", " ">>,
       FormatPseudonym(PERSON, 99), <<".">>>>,
     <<<<"[">>, FormatPseudonym(PERSON, 99), <<"]">>>>,
     <<<<"H", "i", ".">>>>}

\* vt after a call that left `vault` and returned `result`
AfterCall(kind, arg, vault, result, raised) ==
    [vt EXCEPT !.vault = vault, !.calls = @ + 1,
               !.only_add_entity = (@ /\ kind = "add_entity"),
               !.last = [kind |-> kind, arg |-> arg, before |-> vt.vault,
                         result |-> result, raised |-> raised]]

\* a call of Vault.load_entries, made as the requests make it: on the vault
\* just constructed
CallLoadEntries(entries) ==
    /\ vt.calls = 0
    /\ vt' = AfterCall("load_entries", [entries |-> entries],
                       load_entries(vt.vault, entries), <<>>, FALSE)
    /\ UNCHANGED <<db, req, events, llm_log, up, pipe, svc>>

\* a call of Vault.add_entity; `first` keeps the pseudonym a real value was
\* given when it was new
CallAddEntity(real_value, entity_type) ==
    LET returned(added) ==
            vt' = [AfterCall("add_entity",
                             [real_value |-> real_value, entity_type |-> entity_type],
                             added.vault, added.pseudonym, FALSE)
                       EXCEPT !.first = IF DictHas(vt.vault.forward, real_value)
                                        THEN @
                                        ELSE DictSet(@, real_value, added.pseudonym)]
    IN /\ vt.calls < MaxOps
       /\ returned(add_entity(vt.vault, real_value, entity_type))
       /\ UNCHANGED <<db, req, events, llm_log, up, pipe, svc>>

\* a call of Vault.add_alias; KeyError for a pseudonym the vault has not
CallAddAlias(pseudonym, alias) ==
    /\ vt.calls < MaxOps
    /\ vt' = IF DictHas(vt.vault.entries, pseudonym)
             THEN AfterCall("add_alias", [pseudonym |-> pseudonym, alias |-> alias],
                            add_alias(vt.vault, pseudonym, alias), <<>>, FALSE)
             ELSE AfterCall("add_alias", [pseudonym |-> pseudonym, alias |-> alias],
                            vt.vault, <<>>, TRUE)
    /\ UNCHANGED <<db, req, events, llm_log, up, pipe, svc>>

\* a call of EntityMapper.resolve_prompt_entities
CallResolve(input) ==
    /\ vt.calls < MaxOps
    /\ vt' = AfterCall("resolve_prompt_entities", input,
                       resolve_prompt_entities(vt.vault, input.spans), <<>>, FALSE)
    /\ UNCHANGED <<db, req, events, llm_log, up, pipe, svc>>

\* a call of Vault.pseudonymize_text; `resolved` tells that the call before
\* was resolve_prompt_entities for the same spans, as in process_prompt
CallPseudonymize(input) ==
    LET returned(blinded) ==
            vt' = AfterCall("pseudonymize_text",
                            [text |-> input.text, spans |-> input.spans,
                             resolved |-> (/\ vt.last.kind = "resolve_prompt_entities"
                                           /\ vt.last.arg = input)],
                            blinded.vault, blinded.text, FALSE)
    IN /\ vt.calls < MaxOps
       /\ returned(pseudonymize_text(vt.vault, input.text, input.spans))
       /\ UNCHANGED <<db, req, events, llm_log, up, pipe, svc>>

\* a call of Depseudonymizer.restore; `source` is the text whose blinding is
\* restored when the call before was that pseudonymize_text, else <<>>
CallRestore(text) ==
    /\ vt.calls < MaxOps
    /\ \E restored \in restore(vt.vault, text) :
           vt' = AfterCall("restore",
                           [text |-> text,
                            source |-> IF /\ vt.last.kind = "pseudonymize_text"
                                          /\ vt.last.result = text
                                       THEN vt.last.arg.text ELSE <<>>],
                           vt.vault, restored, FALSE)
    /\ UNCHANGED <<db, req, events, llm_log, up, pipe, svc>>

\* the pseudonyms add_alias is given: those of the vault and one it has not
Aliased == {vt.vault.entries[n].k : n \in 1..Len(vt.vault.entries)}
               \cup {FormatPseudonym(PERSON, 99)}

\* the texts restore is given: the answers, and the text just blinded
Restored ==
    {Concat(pieces) : pieces \in ANSWERS \cup INVENTED}
        \cup (IF vt.last.kind = "pseudonymize_text" THEN {vt.last.result} ELSE {})

VaultNext ==
    \/ \E entries \in STORED_ENTRIES : CallLoadEntries(entries)
    \/ \E added \in ADDED : CallAddEntity(added[1], added[2])
    \/ \E pseudonym \in Aliased : CallAddAlias(pseudonym, BO)
    \/ \E input \in SPANNED : CallResolve(input)
    \/ \E input \in SPANNED : CallPseudonymize(input)
    \/ \E text \in Restored : CallRestore(text)

VaultSpec == Init /\ [][VaultNext]_vars

\* --------------------------------------------- the document services

\* _is_tabular / is_tabular: among the first lines of the text (split at
\* most five times) at least two hold the separator twice
_is_tabular(text) ==
    LET pieces == SplitOn(text, <<"\n">>)
        lines == IF Len(pieces) <= 6 THEN pieces
                 ELSE SubSeq(pieces, 1, 5)
                          \o <<Join(SubSeq(pieces, 6, Len(pieces)), <<"\n">>)>>
        pipe_lines == {i \in 1..Len(lines) : Len(SplitOn(lines[i], SEPARATOR)) - 1 >= 2}
    IN Cardinality(pipe_lines) >= 2

\* words[start:end] of Python: a negative index counts from the end
PySlice(seq, start, end) ==
    LET at(i) == IF i < 0 THEN Max(Len(seq) + i, 0) ELSE Min(i, Len(seq))
    IN IF at(start) < at(end) THEN SubSeq(seq, at(start) + 1, at(end)) ELSE <<>>

\* the texts that are chunked: up to five words, some between runs of blanks
CHUNKED_TEXTS ==
    {<<>>, <<" ">>, <<"a">>, <<"a", " ", "b">>, <<" ", "a", " ", " ", "b", " ", "c">>,
     <<"a", " ", "b", " ", "c", " ", "d">>,
     <<"a", " ", "b", "\n", "c", " ", "d", " ", "e">>}

\* the values of Settings.chunk_size and Settings.chunk_overlap, which are
\* read from the environment as plain integers
CHUNK_SIZES == 1..3

CHUNK_OVERLAPS == 0..3

\* _chunk_text up to its loop: a blank text has no chunk, a text of at most
\* chunk_size words is its own chunk.  The texts are prose; tabular text
\* goes to _chunk_tabular.
ChunkTextCall(text, chunk_size, overlap) ==
    LET words == Split(text)
        called(pc, chunks) ==
            svc' = [IdleService EXCEPT
                       !.pc = pc, !.fn = "_chunk_text", !.text = text,
                       !.chunk_size = chunk_size, !.overlap = overlap,
                       !.words = words, !.chunks = chunks]
    IN /\ svc.pc = "idle"
       /\ ~_is_tabular(text)
       /\ IF Strip(text, WHITESPACE) = <<>> THEN called("returned", <<>>)
          ELSE IF Len(words) <= chunk_size THEN called("returned", <<text>>)
          ELSE called("loop", <<>>)
       /\ UNCHANGED <<db, req, events, llm_log, up, pipe, vt>>

\* one iteration of `while start < len(words)`.  Of a loop that goes on, the
\* first MaxIter chunks are kept and then only whether the number of
\* iterations is odd; start is not followed below -(len(words) + chunk_size),
\* from where on every chunk is the empty string.
ChunkTextLoop ==
    LET end == svc.start + svc.chunk_size
        chunk == Join(PySlice(svc.words, svc.start, end), <<" ">>)
    IN /\ svc.pc = "loop"
       /\ svc.start < Len(svc.words)
       /\ svc' = [svc EXCEPT
                     !.chunks = IF Len(@) < MaxIter THEN Append(@, chunk) ELSE @,
                     !.start = Max(end - svc.overlap, -(Len(svc.words) + svc.chunk_size)),
                     !.odd = ~@]
       /\ UNCHANGED <<db, req, events, llm_log, up, pipe, vt>>

\* the loop is left and the chunks are returned
ChunkTextReturn ==
    /\ svc.pc = "loop"
    /\ ~(svc.start < Len(svc.words))
    /\ svc' = [svc EXCEPT !.pc = "returned"]
    /\ UNCHANGED <<db, req, events, llm_log, up, pipe, vt>>

\* ------------------------------------------------------ the tabular query

\* the order of str comparison on the characters of pseudonyms
ASCII_ORDER == DIGITS \o UPPERCASE \o <<"[", "]", "_">> \o LOWERCASE

Ord(c) == CHOOSE i \in 1..Len(ASCII_ORDER) : ASCII_ORDER[i] = c

RECURSIVE StrLess(_, _)
\* a < b of two str
StrLess(a, b) ==
    IF b = <<>> THEN FALSE
    ELSE IF a = <<>> THEN TRUE
    ELSE IF Head(a) = Head(b) THEN StrLess(Tail(a), Tail(b))
    ELSE Ord(Head(a)) < Ord(Head(b))

RECURSIVE Sorted(_)
\* sorted(a set of str)
Sorted(strs) ==
    IF strs = {} THEN <<>>
    ELSE LET least == CHOOSE x \in strs : \A y \in strs : x = y \/ StrLess(x, y)
         IN <<least>> \o Sorted(strs \ {least})

\* re.search of \b(alt1|alt2|...)\b with re.IGNORECASE
SearchWord(text, alternatives) ==
    \E alt \in alternatives :
        \E i \in 0..Len(text) :
            /\ LiteralAt(text, alt, i, TRUE)
            /\ WordBoundary(text, i)
            /\ WordBoundary(text, i + Len(alt))

_COUNT_PATTERNS == {<<"h", "o", "w", " ", "m", "a", "n", "y">>, <<"c", "o", "u", "n", "t">>,
    <<"t", "o", "t", "a", "l", " ", "n", "u", "m", "b", "e", "r">>, <<"n", "u", "m", "b", "e",
        "r", " ", "o", "f">>}

_AVG_PATTERNS == {<<"a", "v", "e", "r", "a", "g", "e">>, <<"m", "e", "a", "n">>, <<"a", "v", "g">>}

_EXTREMA_MAX_PATTERNS ==
    {<<"o", "l", "d", "e", "s", "t">>, <<"h", "i", "g", "h", "e", "s", "t">>, <<"m", "a", "x",
        "i", "m", "u", "m">>, <<"m", "a", "x">>, <<"m", "o", "s", "t">>, <<"l", "a", "r", "g",
            "e", "s", "t">>, <<"b", "i", "g", "g", "e", "s", "t">>, <<"t", "o", "p">>}

_EXTREMA_MIN_PATTERNS ==
    {<<"y", "o", "u", "n", "g", "e", "s", "t">>, <<"l", "o", "w", "e", "s", "t">>, <<"m", "i",
        "n", "i", "m", "u", "m">>, <<"m", "i", "n">>, <<"l", "e", "a", "s", "t">>, <<"s", "m",
            "a", "l", "l", "e", "s", "t">>, <<"b", "o", "t", "t", "o", "m">>}

_COMPARE_PATTERNS == {<<"c", "o", "m", "p", "a", "r", "e">>, <<"d", "i", "f", "f", "e", "r", "e",
    "n", "c", "e", " ", "b", "e", "t", "w", "e", "e", "n">>, <<"v", "e", "r", "s", "u", "s">>,
        <<"v", "s">>}

_NUMERIC_COLUMN_HINTS ==
    {<<"a", "g", "e">>, <<"s", "a", "l", "a", "r", "y">>, <<"i", "n", "c", "o", "m", "e">>,
        <<"a", "m", "o", "u", "n", "t">>, <<"b", "a", "l", "a", "n", "c", "e">>, <<"s", "c", "o",
            "r", "e">>, <<"r", "a", "t", "i", "n", "g">>,
     <<"c", "o", "u", "n", "t">>, <<"t", "o", "t", "a", "l">>, <<"p", "r", "i", "c", "e">>,
         <<"c", "o", "s", "t">>, <<"w", "e", "i", "g", "h", "t">>, <<"h", "e", "i", "g", "h", "t">>,
     <<"y", "e", "a", "r">>, <<"y", "e", "a", "r", "s">>, <<"m", "o", "n", "t", "h">>, <<"m",
         "o", "n", "t", "h", "s">>, <<"d", "a", "y">>, <<"d", "a", "y", "s">>,
     <<"n", "u", "m", "b", "e", "r">>, <<"q", "u", "a", "n", "t", "i", "t", "y">>, <<"r", "a",
         "t", "e">>, <<"p", "e", "r", "c", "e", "n", "t", "a", "g", "e">>, <<"z", "i", "p">>}

\* _SUM_PATTERNS: \b(sum|total(?! number))\b
SearchSum(text) ==
    \/ SearchWord(text, {<<"s", "u", "m">>})
    \/ \E i \in 0..Len(text) :
           /\ LiteralAt(text, <<"t", "o", "t", "a", "l">>, i, TRUE)
           /\ ~LiteralAt(text, <<" ", "n", "u", "m", "b", "e", "r">>, i + 5, TRUE)
           /\ WordBoundary(text, i)
           /\ WordBoundary(text, i + 5)

\* _FILTER_PATTERNS: the four fixed phrases, or `all`, a blank, one or more
\* characters of one line, a blank and one of the seven prepositions
SearchFilter(text) ==
    \/ SearchWord(text, {<<"l", "i", "s", "t", " ", "a", "l", "l">>, <<"s", "h", "o", "w", " ",
        "a", "l", "l">>, <<"l", "i", "s", "t", " ", "e", "v", "e", "r", "y", "o", "n", "e">>,
            <<"s", "h", "o", "w", " ", "e", "v", "e", "r", "y", "o", "n", "e">>})
    \/ \E i \in 0..Len(text), j \in 0..Len(text) :
           \E word \in {<<"w", "i", "t", "h">>, <<"i", "n">>, <<"f", "r", "o", "m">>, <<"o", "v",
               "e", "r">>, <<"u", "n", "d", "e", "r">>, <<"a", "b", "o", "v", "e">>, <<"b", "e",
                   "l", "o", "w">>} :
               /\ LiteralAt(text, <<"a", "l", "l", " ">>, i, TRUE)
               /\ WordBoundary(text, i)
               /\ j >= i + 5
               /\ \A k \in (i + 5)..j : text[k] # "\n"
               /\ LiteralAt(text, <<" ">> \o word, j, TRUE)
               /\ WordBoundary(text, j + 1 + Len(word))

\* the [A-Z][A-Z0-9_]* ... run of the query engine's _PSEUDONYM_RE
RECURSIVE NameRunEnd(_, _)
NameRunEnd(text, i) ==
    IF i < Len(text) /\ (IsUpper(text[i + 1]) \/ IsDigit(text[i + 1]) \/ text[i + 1] = "_")
    THEN NameRunEnd(text, i + 1) ELSE i

\* \[([A-Z][A-Z0-9_]*_\d+)\] matched at offset i: the offset after the "]",
\* or -1.  The name begins with a capital and ends with "_" and digits.
TabularPseudonymEnd(text, i) ==
    IF ~(i < Len(text) /\ text[i + 1] = "[") THEN -1
    ELSE LET e == NameRunEnd(text, i + 1)
             inner == Slice(text, i + 1, e)
             name == RStrip(inner, {DIGITS[k] : k \in 1..10})
         IN IF /\ e < Len(text) /\ text[e + 1] = "]"
               /\ Len(name) < Len(inner)
               /\ Len(name) >= 2
               /\ name[Len(name)] = "_"
               /\ IsUpper(name[1])
            THEN e + 1 ELSE -1

RECURSIVE TabularFindAll(_, _)
\* _PSEUDONYM_RE.findall(query) from offset i
TabularFindAll(text, i) ==
    IF i >= Len(text) THEN <<>>
    ELSE LET e == TabularPseudonymEnd(text, i)
         IN IF e = -1 THEN TabularFindAll(text, i + 1)
            ELSE <<Slice(text, i + 1, e - 1)>> \o TabularFindAll(text, e)

\* TabularData dataclass; parse_tabular returns None for fewer than two lines
TabularData(header, rows) == [parsed |-> TRUE, header |-> header, rows |-> rows]

NoTabularData == [parsed |-> FALSE, header |-> <<>>, rows |-> <<>>]

\* parse_tabular
parse_tabular(text) ==
    LET lines == SplitOn(text, <<"\n">>)
        non_empty == SelectSeq(lines, LAMBDA line : Strip(line, WHITESPACE) # <<>>)
        cells_of(line) ==
            LET cells == SplitOn(line, SEPARATOR)
            IN [k \in 1..Len(cells) |-> Strip(cells[k], WHITESPACE)]
        header == cells_of(non_empty[1])
        fitted(cells) ==
            [k \in 1..Len(header) |-> IF k <= Len(cells) THEN cells[k] ELSE <<>>]
    IN IF Len(non_empty) < 2 THEN NoTabularData
       ELSE TabularData(header,
                        [r \in 1..(Len(non_empty) - 1) |-> fitted(cells_of(non_empty[r + 1]))])

\* QueryResult dataclass; `is_none` stands for the None that try_tabular_query
\* returns in place of a result
QueryResult(success, context, query_type) ==
    [is_none |-> FALSE, success |-> success, context |-> context, query_type |-> query_type]

None == [is_none |-> TRUE, success |-> FALSE, context |-> <<>>, query_type |-> "none"]

\* _find_rows_with_value: table and row of every row with a cell that holds value
_find_rows_with_value(tables, value) ==
    Concat([t \in 1..Len(tables) |->
               LET hits == SelectSeq(tables[t].rows,
                                     LAMBDA row : \E k \in 1..Len(row) : Contains(row[k], value))
               IN [h \in 1..Len(hits) |-> [table |-> tables[t], row |-> hits[h]]]])

\* _format_row: the non-blank cells, each under the name of its column
_format_row(header, row) ==
    LET n == Min(Len(header), Len(row))
        shown == SelectSeq([k \in 1..n |-> k], LAMBDA k : Strip(row[k], WHITESPACE) # <<>>)
    IN Join([s \in 1..Len(shown) |->
                <<"  - ">> \o header[shown[s]] \o <<": ">> \o row[shown[s]]],
            <<"\n">>)

\* _find_column: the first column whose lower-cased name occurs in the query
_find_column(header, query) ==
    LET named == {i \in 1..Len(header) : Contains(Lower(query), Lower(header[i]))}
    IN IF named = {} THEN 0 ELSE CHOOSE i \in named : \A j \in named : i <= j

\* _find_numeric_column: that column, else the first whose name hints at
\* numbers; 0 stands for None
_find_numeric_column(header, query) ==
    LET hinted == {i \in 1..Len(header) : SearchWord(header[i], _NUMERIC_COLUMN_HINTS)}
    IN IF _find_column(header, query) # 0 THEN _find_column(header, query)
       ELSE IF hinted = {} THEN 0
       ELSE CHOOSE i \in hinted : \A j \in hinted : i <= j

\* float(s) in hundredths, for digits with at most two digits after a point;
\* -1 where float raises ValueError (the cells and thresholds of the model are
\* of these two kinds)
ParseFloat(s) ==
    LET parts == SplitOn(s, <<".">>)
        whole == ParseInt(parts[1])
        cents == IF Len(parts[2]) = 1 THEN ParseInt(parts[2]) * 10 ELSE ParseInt(parts[2])
    IN IF Len(parts) = 1 THEN (IF whole = -1 THEN -1 ELSE whole * 100)
       ELSE IF Len(parts) = 2 /\ whole # -1 /\ Len(parts[2]) \in {1, 2} /\ ParseInt(parts[2]) # -1
            THEN whole * 100 + cents
            ELSE -1

\* str(x) of a float given in hundredths
FloatStr(x) ==
    IntToStr(x \div 100) \o <<".">>
        \o (IF x % 10 = 0 THEN IntToStr((x % 100) \div 10)
            ELSE <<DIGITS[((x % 100) \div 10) + 1], DIGITS[(x % 10) + 1]>>)

\* f"{x:.2f}" of a float given in hundredths
Fixed2(x) ==
    IntToStr(x \div 100) \o <<".", DIGITS[((x % 100) \div 10) + 1], DIGITS[(x % 10) + 1]>>

\* _get_numeric_values: value and row of every row whose cell parses
_get_numeric_values(table, col_idx) ==
    LET value(row) ==
            ParseFloat(Strip(Replace(Replace(row[col_idx], <<",">>, <<>>), <<"$">>, <<>>),
                             WHITESPACE))
        numeric == SelectSeq(table.rows, LAMBDA row : value(row) # -1)
    IN [k \in 1..Len(numeric) |-> [val |-> value(numeric[k]), row |-> numeric[k]]]

\* re.search(r"(w1|w2|...)\s*(\d+(?:\.\d+)?)", query, re.IGNORECASE): the
\* number of the leftmost match in hundredths, or -1 without a match
ThresholdSearch(query, words) ==
    LET number_end(j) ==
            LET d == DigitRunEnd(query, j)
                f == IF d < Len(query) /\ query[d + 1] = "." THEN DigitRunEnd(query, d + 1)
                     ELSE d
            IN IF f > d + 1 THEN f ELSE d
        match(i, word) ==
            /\ LiteralAt(query, word, i, TRUE)
            /\ DigitRunEnd(query, SkipSpaces(query, i + Len(word)))
                   > SkipSpaces(query, i + Len(word))
        at == {i \in 0..Len(query) : \E word \in words : match(i, word)}
        first == CHOOSE i \in at : \A j \in at : i <= j
        word == CHOOSE w \in words : match(first, w)
        from == SkipSpaces(query, first + Len(word))
    IN IF at = {} THEN -1 ELSE ParseFloat(Slice(query, from, number_end(from)))

OVER_WORDS == {<<"o", "v", "e", "r">>, <<"a", "b", "o", "v", "e">>, <<"g", "r", "e", "a", "t",
    "e", "r", " ", "t", "h", "a", "n">>, <<"m", "o", "r", "e", " ", "t", "h", "a", "n">>, <<">">>}

UNDER_WORDS == {<<"u", "n", "d", "e", "r">>, <<"b", "e", "l", "o", "w">>, <<"l", "e", "s", "s",
    " ", "t", "h", "a", "n">>, <<"f", "e", "w", "e", "r", " ", "t", "h", "a", "n">>, <<"<">>}

\* the words of the second search of _handle_filter, which has no `fewer than`
UNDER_WORDS_FILTER == {<<"u", "n", "d", "e", "r">>, <<"b", "e", "l", "o", "w">>, <<"l", "e", "s",
    "s", " ", "t", "h", "a", "n">>, <<"<">>}

\* _handle_point_lookup
_handle_point_lookup(query, tables, pseudonym) ==
    LET matches == _find_rows_with_value(tables, pseudonym)
    IN IF matches = <<>>
       THEN QueryResult(FALSE,
                        <<"No data found for ">> \o pseudonym \o <<" in the documents.">>,
                        "point_lookup")
       ELSE QueryResult(TRUE,
                        Join([m \in 1..Len(matches) |->
                                 <<"Data for ">> \o pseudonym \o <<":", "\n">>
                                     \o _format_row(matches[m].table.header, matches[m].row)],
                             <<"\n", "\n">>),
                        "point_lookup")

\* _handle_multi_lookup
_handle_multi_lookup(query, tables, pseudo_set) ==
    LET sorted == Sorted(pseudo_set)
        parts_of(pseudo) ==
            LET matches == _find_rows_with_value(tables, pseudo)
            IN IF matches # <<>>
               THEN [m \in 1..Len(matches) |->
                        <<"Data for ">> \o pseudo \o <<":", "\n">>
                            \o _format_row(matches[m].table.header, matches[m].row)]
               ELSE <<<<"No data found for ">> \o pseudo \o <<".">>>>
        parts == Concat([k \in 1..Len(sorted) |-> parts_of(sorted[k])])
    IN QueryResult(TRUE, Join(parts, <<"\n", "\n">>), "multi_lookup")

\* _handle_comparison
_handle_comparison(query, tables, pseudo_set) ==
    LET sorted == Sorted(pseudo_set)
        part_of(pseudo) ==
            LET matches == _find_rows_with_value(tables, pseudo)
            IN IF matches # <<>>
               THEN <<"\n">> \o pseudo \o <<":", "\n">>
                        \o _format_row(matches[1].table.header, matches[1].row)
               ELSE <<"\n">> \o pseudo \o <<": No data found.">>
        parts == <<<<"Comparison:">>>> \o [k \in 1..Len(sorted) |-> part_of(sorted[k])]
    IN QueryResult(TRUE, Join(parts, <<"\n">>), "comparison")

\* _handle_reverse_lookup
_handle_reverse_lookup(query, tables) ==
    LET pseudonyms == TabularFindAll(query, 0)
        results_of(pseudo) ==
            LET full == <<"[">> \o pseudo \o <<"]">>
                matches == _find_rows_with_value(tables, full)
            IN [m \in 1..Len(matches) |->
                   <<"Row containing ">> \o full \o <<":", "\n">>
                       \o _format_row(matches[m].table.header, matches[m].row)]
        results == Concat([k \in 1..Len(pseudonyms) |-> results_of(pseudonyms[k])])
    IN IF results = <<>>
       THEN QueryResult(FALSE, <<"No matching rows found.">>, "reverse_lookup")
       ELSE QueryResult(TRUE, Join(results, <<"\n", "\n">>), "reverse_lookup")

\* the number of values val of numeric_vals for which Test(val) holds
CountWhere(numeric_vals, Test(_)) ==
    Cardinality({k \in 1..Len(numeric_vals) : Test(numeric_vals[k].val)})

\* _handle_count: the first table decides
_handle_count(query, tables) ==
    LET filtered(table, col_name, valid, sign, words, threshold, count) ==
            <<"ANALYSIS METHOD: Scanned ">> \o IntToStr(Len(table.rows))
                \o <<" rows in the dataset. Parsed the '">> \o col_name
                \o <<"' column as numeric values across ">> \o valid
                \o <<" valid rows (non-numeric entries excluded). Applied filter: ">>
                \o col_name \o <<" ", sign, " ">> \o threshold
                \o <<".", "\n", "\n", "RESULT: ">> \o IntToStr(count)
                \o <<" out of ">> \o valid \o <<" rows have ">> \o col_name
                \o <<words>> \o threshold \o <<".">>
        counted(table, col_name, valid) ==
            <<"ANALYSIS METHOD: Scanned ">> \o IntToStr(Len(table.rows))
                \o <<" rows in the dataset. Counted rows with valid '">>
                \o col_name \o <<"' data.", "\n", "\n", "RESULT: ">> \o valid
                \o <<" rows have valid ">> \o col_name \o <<" data (out of ">>
                \o IntToStr(Len(table.rows)) \o <<" total rows).">>
        of_column(table, col_name, numeric_vals, over, under) ==
            IF over # -1
            THEN QueryResult(TRUE,
                             filtered(table, col_name, IntToStr(Len(numeric_vals)),
                                      ">", " greater than ", FloatStr(over),
                                      CountWhere(numeric_vals, LAMBDA val : val > over)),
                             "count")
            ELSE IF under # -1
            THEN QueryResult(TRUE,
                             filtered(table, col_name, IntToStr(Len(numeric_vals)),
                                      "<", " less than ", FloatStr(under),
                                      CountWhere(numeric_vals, LAMBDA val : val < under)),
                             "count")
            ELSE QueryResult(TRUE, counted(table, col_name, IntToStr(Len(numeric_vals))),
                             "count")
        of_table(table, col_idx) ==
            IF col_idx = 0
            THEN QueryResult(TRUE,
                             <<"Total rows in the dataset: ">> \o IntToStr(Len(table.rows)),
                             "count")
            ELSE of_column(table, table.header[col_idx], _get_numeric_values(table, col_idx),
                           ThresholdSearch(query, OVER_WORDS),
                           ThresholdSearch(query, UNDER_WORDS))
    IN IF tables = <<>>
       THEN QueryResult(FALSE, <<"No tabular data to count.">>, "count")
       ELSE of_table(tables[1], _find_numeric_column(tables[1].header, query))

\* the tables in which the query finds a column with a numeric value, in order
NumericTables(query, tables) ==
    LET usable(table, col_idx) ==
            col_idx # 0 /\ _get_numeric_values(table, col_idx) # <<>>
    IN SelectSeq(tables,
                 LAMBDA table : usable(table, _find_numeric_column(table.header, query)))

RECURSIVE SumOf(_)
SumOf(values) == IF values = <<>> THEN 0 ELSE Head(values) + SumOf(Tail(values))

\* the head of "ANALYSIS METHOD: Extracted numeric values ..." shared by the
\* average, sum and extrema contexts
Extracted(table, col_name, numeric_vals) ==
    <<"ANALYSIS METHOD: Extracted numeric values from the '">> \o col_name
        \o <<"' column across ">> \o IntToStr(Len(numeric_vals))
        \o <<" valid rows (out of ">> \o IntToStr(Len(table.rows)) \o <<" total). ">>

\* _handle_average: the first table with a numeric column that has values.
\* The mean of the model's values has no tie in its third decimal.
_handle_average(query, tables) ==
    LET stated(table, col_name, numeric_vals, values, avg, least, most) ==
            Extracted(table, col_name, numeric_vals)
                \o <<"Computed the arithmetic mean: sum of all values / count.",
                     "\n", "\n", "RESULT: Average ">> \o col_name \o <<" = ">>
                \o Fixed2(avg) \o <<" (min: ">> \o Fixed2(least) \o <<", max: ">>
                \o Fixed2(most) \o <<", computed from ">>
                \o IntToStr(Len(values)) \o <<" rows).">>
        of_values(table, col_name, numeric_vals, values) ==
            stated(table, col_name, numeric_vals, values,
                   (2 * SumOf(values) + Len(values)) \div (2 * Len(values)),
                   CHOOSE v \in {values[k] : k \in 1..Len(values)} :
                       \A k \in 1..Len(values) : v <= values[k],
                   CHOOSE v \in {values[k] : k \in 1..Len(values)} :
                       \A k \in 1..Len(values) : v >= values[k])
        of_column(table, col_name, numeric_vals) ==
            of_values(table, col_name, numeric_vals,
                      [k \in 1..Len(numeric_vals) |-> numeric_vals[k].val])
        of_table(table, col_idx) ==
            of_column(table, table.header[col_idx], _get_numeric_values(table, col_idx))
        of_tables(usable) ==
            IF usable = <<>>
            THEN QueryResult(FALSE, <<"Could not find a numeric column to average.">>,
                             "average")
            ELSE QueryResult(TRUE,
                             of_table(usable[1],
                                      _find_numeric_column(usable[1].header, query)),
                             "average")
    IN of_tables(NumericTables(query, tables))

\* _handle_sum
_handle_sum(query, tables) ==
    LET of_values(table, col_name, numeric_vals, values) ==
            Extracted(table, col_name, numeric_vals)
                \o <<"Summed all values.", "\n", "\n", "RESULT: Sum of ">>
                \o col_name \o <<" = ">> \o Fixed2(SumOf(values)) \o <<" (from ">>
                \o IntToStr(Len(values)) \o <<" rows).">>
        of_column(table, col_name, numeric_vals) ==
            of_values(table, col_name, numeric_vals,
                      [k \in 1..Len(numeric_vals) |-> numeric_vals[k].val])
        of_table(table, col_idx) ==
            of_column(table, table.header[col_idx], _get_numeric_values(table, col_idx))
        of_tables(usable) ==
            IF usable = <<>>
            THEN QueryResult(FALSE, <<"Could not find a numeric column to sum.">>, "sum")
            ELSE QueryResult(TRUE,
                             of_table(usable[1],
                                      _find_numeric_column(usable[1].header, query)),
                             "sum")
    IN of_tables(NumericTables(query, tables))

\* _handle_extrema: max and min return the first of equal values
_handle_extrema(query, tables, direction) ==
    LET better(a, b) == IF direction = "max" THEN a > b ELSE a < b
        label == IF direction = "max" THEN "highest" ELSE "lowest"
        of_best(table, col_name, numeric_vals, best) ==
            Extracted(table, col_name, numeric_vals)
                \o <<"Sorted by ">> \o col_name \o <<" to find the ", label,
                     " value.", "\n", "\n", "RESULT: Row with ", label, " ">>
                \o col_name \o <<" (">> \o FloatStr(best.val) \o <<"):", "\n">>
                \o _format_row(table.header, best.row)
        of_column(table, col_name, numeric_vals) ==
            of_best(table, col_name, numeric_vals,
                    numeric_vals[CHOOSE k \in 1..Len(numeric_vals) :
                                     /\ \A j \in 1..Len(numeric_vals) :
                                            ~better(numeric_vals[j].val, numeric_vals[k].val)
                                     /\ \A j \in 1..(k - 1) :
                                            numeric_vals[j].val # numeric_vals[k].val])
        of_table(table, col_idx) ==
            of_column(table, table.header[col_idx], _get_numeric_values(table, col_idx))
        of_tables(usable) ==
            IF usable = <<>>
            THEN QueryResult(FALSE, <<"Could not find a numeric column.">>, "extrema")
            ELSE QueryResult(TRUE,
                             of_table(usable[1],
                                      _find_numeric_column(usable[1].header, query)),
                             "extrema")
    IN of_tables(NumericTables(query, tables))

\* matches[:20]
DISPLAY_CAP == 20

\* _handle_filter: the first table with a column for the query decides when
\* the query holds a threshold; without a threshold the function returns None
_handle_filter(query, tables) ==
    LET more(matches) ==
            IF Len(matches) > DISPLAY_CAP
            THEN <<<<"... and ">> \o IntToStr(Len(matches) - DISPLAY_CAP)
                       \o <<" more rows.">>>>
            ELSE <<>>
        rows(table, display_matches) ==
            Concat([k \in 1..Len(display_matches) |->
                       <<_format_row(table.header, display_matches[k].row), <<>>>>])
        found(table, col_name, numeric_vals, matches) ==
            <<"ANALYSIS METHOD: Scanned ">> \o IntToStr(Len(table.rows))
                \o <<" rows in the dataset. Parsed the '">> \o col_name
                \o <<"' column as numeric values across ">>
                \o IntToStr(Len(numeric_vals))
                \o <<" valid rows. Applied filter to find matching rows.", "\n", "\n",
                     "RESULT: Found ">> \o IntToStr(Len(matches))
                \o <<" rows matching filter on ">> \o col_name \o <<":", "\n">>
        of_matches(table, col_name, numeric_vals, matches) ==
            IF matches = <<>>
            THEN QueryResult(TRUE,
                             <<"No rows found matching the filter on ">> \o col_name
                                 \o <<".">>,
                             "filter")
            ELSE QueryResult(TRUE,
                             Join(<<found(table, col_name, numeric_vals, matches)>>
                                      \o rows(table,
                                              SubSeq(matches, 1,
                                                     Min(Len(matches), DISPLAY_CAP)))
                                      \o more(matches),
                                  <<"\n">>),
                             "filter")
        of_column(table, col_name, numeric_vals, over, under) ==
            of_matches(table, col_name, numeric_vals,
                       SelectSeq(numeric_vals,
                                 LAMBDA m : IF over # -1 THEN m.val > over
                                            ELSE m.val < under))
        of_table(table, col_idx, over, under) ==
            of_column(table, table.header[col_idx], _get_numeric_values(table, col_idx),
                      over, under)
        of_tables(with_column, over, under) ==
            IF with_column = <<>> \/ (over = -1 /\ under = -1) THEN None
            ELSE of_table(with_column[1],
                          _find_numeric_column(with_column[1].header, query), over, under)
    IN of_tables(SelectSeq(tables, LAMBDA t : _find_numeric_column(t.header, query) # 0),
                 ThresholdSearch(query, OVER_WORDS),
                 ThresholdSearch(query, UNDER_WORDS_FILTER))

\* try_tabular_query
try_tabular_query(blinded_query, blinded_documents) ==
    LET usable(doc_text, parsed) ==
            _is_tabular(doc_text) /\ parsed.parsed /\ Len(parsed.rows) > 0
        dispatch(tables, pseudo_set) ==
            IF tables = <<>> THEN None
            ELSE IF SearchWord(blinded_query, _COMPARE_PATTERNS)
                    /\ Cardinality(pseudo_set) >= 2
            THEN _handle_comparison(blinded_query, tables, pseudo_set)
            ELSE IF pseudo_set # {}
            THEN (IF Cardinality(pseudo_set) = 1
                  THEN _handle_point_lookup(blinded_query, tables,
                                            CHOOSE p \in pseudo_set : TRUE)
                  ELSE _handle_multi_lookup(blinded_query, tables, pseudo_set))
            ELSE IF SearchWord(blinded_query, _COUNT_PATTERNS)
            THEN _handle_count(blinded_query, tables)
            ELSE IF SearchWord(blinded_query, _AVG_PATTERNS)
            THEN _handle_average(blinded_query, tables)
            ELSE IF SearchSum(blinded_query) THEN _handle_sum(blinded_query, tables)
            ELSE IF SearchWord(blinded_query, _EXTREMA_MAX_PATTERNS)
            THEN _handle_extrema(blinded_query, tables, "max")
            ELSE IF SearchWord(blinded_query, _EXTREMA_MIN_PATTERNS)
            THEN _handle_extrema(blinded_query, tables, "min")
            ELSE IF SearchFilter(blinded_query) THEN _handle_filter(blinded_query, tables)
            ELSE IF TabularFindAll(blinded_query, 0) # <<>>
            THEN _handle_reverse_lookup(blinded_query, tables)
            ELSE None
        of_documents(tabular, pseudonyms) ==
            dispatch([t \in 1..Len(tabular) |-> parse_tabular(tabular[t])],
                     {<<"[">> \o pseudonyms[k] \o <<"]">> : k \in 1..Len(pseudonyms)})
    IN of_documents(SelectSeq(blinded_documents,
                              LAMBDA doc_text : usable(doc_text, parse_tabular(doc_text))),
                    TabularFindAll(blinded_query, 0))

\* the blinded documents of a session: a prose text, and a table with a
\* header and two rows
PROSE_DOCUMENT == <<"H", "i", " ", "[", "P", "E", "R", "S", "O", "N", "_", "1", "]">>

TABLE_DOCUMENT ==
    <<"n", " ", "|", " ", "a", "g", "e", " ", "|", " ", "c">> \o <<"\n">> \o <<"[", "P", "E",
        "R", "S", "O", "N", "_", "1", "]", " ", "|", " ", "3", "0", " ", "|", " ",
            "x">> \o <<"\n">> \o <<"[", "P", "E", "R", "S", "O", "N", "_", "2", "]", " ", "|",
                " ", "4", "1", " ", "|", " ", "y">>

DOCUMENT_LISTS ==
    {<<>>, <<PROSE_DOCUMENT>>, <<TABLE_DOCUMENT>>, <<PROSE_DOCUMENT, TABLE_DOCUMENT>>}

\* the blinded prompts: pseudonyms the table holds and pseudonyms it does
\* not hold, and a prompt for each of the other handlers
QUERIES ==
    {<<"[", "P", "E", "R", "S", "O", "N", "_", "1", "]", "?">>, <<"[", "P", "E", "R", "S", "O",
        "N", "_", "9", "]", "?">>, <<"[", "P", "E", "R", "S", "O", "N", "_", "8", "]", " ", "[",
            "P", "E", "R", "S", "O", "N", "_", "9", "]">>, <<"[", "P", "E", "R", "S", "O", "N",
                "_", "1", "]", " ", "[", "P", "E", "R", "S", "O", "N", "_", "9", "]">>,
     <<"C", "o", "m", "p", "a", "r", "e", " ", "[", "P", "E", "R", "S", "O", "N", "_", "8", "]",
         " ", "v", "s", " ", "[", "P", "E", "R", "S", "O", "N", "_", "9", "]">>, <<"c", "o", "m",
             "p", "a", "r", "e", " ", "[", "P", "E", "R", "S", "O", "N", "_", "2", "]", " ", "v",
                 "s", " ", "[", "P", "E", "R", "S", "O", "N", "_", "1", "]">>,
     <<"h", "o", "w", " ", "m", "a", "n", "y">>, <<"h", "o", "w", " ", "m", "a", "n", "y", " ",
         "a", "g", "e", " ", "o", "v", "e", "r", " ", "3", "5">>, <<"a", "v", "e", "r", "a", "g",
             "e", " ", "a", "g", "e">>, <<"m", "e", "a", "n">>, <<"s", "u", "m", " ", "o", "f",
                 " ", "a", "g", "e">>,
     <<"o", "l", "d", "e", "s", "t">>, <<"y", "o", "u", "n", "g", "e", "s", "t">>, <<"l", "i",
         "s", "t", " ", "a", "l", "l", " ", "a", "g", "e", " ", "o", "v", "e", "r", " ", "3",
             "5">>, <<"l", "i", "s", "t", " ", "a", "l", "l", " ", "a", "g", "e", " ", "o", "v",
                 "e", "r", " ", "9", "9">>,
     <<"l", "i", "s", "t", " ", "a", "l", "l">>, <<"h", "e", "l", "l", "o">>}

\* step 7a of a chat request: the tabular result is the only context when it
\* is a result with success set; otherwise retrieved_chunks stays None and
\* step 7b decides between retrieval and the documents as they are
TabularQuery(blinded_prompt, blinded_documents) ==
    LET decided(tabular_result, used) ==
            svc' = [IdleService EXCEPT
                       !.pc = "returned", !.fn = "try_tabular_query",
                       !.blinded_prompt = blinded_prompt,
                       !.blinded_documents = blinded_documents,
                       !.tabular_result = tabular_result,
                       !.retrieved_chunks =
                           IF used THEN <<tabular_result.context>> ELSE <<>>,
                       !.step = IF used THEN "7a" ELSE "7b"]
        returned(tabular_result) ==
            decided(tabular_result, ~tabular_result.is_none /\ tabular_result.success)
    IN /\ svc.pc = "idle"
       /\ returned(try_tabular_query(blinded_prompt, blinded_documents))
       /\ UNCHANGED <<db, req, events, llm_log, up, pipe, vt>>

DocNext ==
    \/ \E text \in CHUNKED_TEXTS, chunk_size \in CHUNK_SIZES, overlap \in CHUNK_OVERLAPS :
           ChunkTextCall(text, chunk_size, overlap)
    \/ ChunkTextLoop
    \/ ChunkTextReturn
    \/ \E blinded_prompt \in QUERIES, blinded_documents \in DOCUMENT_LISTS :
           TabularQuery(blinded_prompt, blinded_documents)

DocSpec == Init /\ [][DocNext]_vars

\* the call that is running keeps running: its loop is sequential code
DocLiveSpec == DocSpec /\ WF_vars(ChunkTextLoop) /\ WF_vars(ChunkTextReturn)

\* ------------------------------------------------------- the chat request

\* the key of the session's vault
encryption_key == derive_key(MASTER_KEY, SESSION_SALT)

\* the loaded_entries of the vault load: the rows, their values decrypted
LoadedEntries(rows) ==
    [i \in 1..Len(rows) |->
        VaultEntry(rows[i].entity_type, rows[i].pseudonym,
                   decrypt(rows[i].encrypted_value, encryption_key, rows[i].nonce),
                   rows[i].aliases)]

\* the vault entries a pipeline call added to the vault it was given
Created(before, after) ==
    SelectSeq(get_all_entries(after), LAMBDA e : ~has_real_value(before, e.pseudonym))

\* what each pseudonym put into a blinded text stands for
Stands(vault, kept) ==
    {[pseudonym |-> get_pseudonym(vault, kept[k].text),
      real_value |-> get_real_value(vault, get_pseudonym(vault, kept[k].text))] :
         k \in 1..Len(kept)}

\* the threat dicts of steps 2 and 3
ThreatDicts(threats) ==
    [n \in 1..Len(threats) |->
        [threat_type |-> threats[n].threat_type,
         description |-> threats[n].description,
         severity |-> threats[n].severity]]

\* A generator that has returned: its locals are gone.  What is kept records
\* the run: the message, the rows it loaded, the requests that had ended with
\* done when it began, its vault, what the pipeline call created and the
\* exceptions raised on the way.
Finished(q, pc) ==
    [IdleRequest EXCEPT !.pc = pc, !.message = q.message, !.nloaded = q.nloaded,
                        !.after = q.after, !.vault = q.vault,
                        !.detect_calls = q.detect_calls,
                        !.created = q.created, !.uses = q.uses, !.raised = q.raised]

\* step 1: the request begins and rebuilds the vault from the stored entries.
\* The two chat requests follow one another, r2 begins when r1 has ended with
\* done; the request that runs beside a chat request is the upload.
LoadVault(r, message) ==
    /\ req[r].pc = "idle"
    /\ r = "r2" => req["r1"].pc = "done"
    /\ req' = [req EXCEPT ![r] =
                 [@ EXCEPT !.pc = "prompt", !.message = message,
                           !.session_domain = db.domain,
                           !.nloaded = Len(db.vault_entries),
                           !.after = {q \in CHATS : req[q].pc = "done"},
                           !.vault = load_entries(EmptyVault,
                                                  LoadedEntries(db.vault_entries))]]
    /\ UNCHANGED <<db, events, llm_log, up, pipe, vt, svc>>

\* step 2: the prompt goes through the pipeline; a high-severity threat ends
\* the request with one error event
ProcessPrompt(r) ==
    LET rejected(out) ==
            /\ events' = [events EXCEPT ![r] =
                            Append(@, [type |-> "error",
                                       error |-> "High severity threat detected",
                                       threats |-> ThreatDicts(out.threats)])]
            /\ req' = [req EXCEPT ![r] =
                         Finished([@ EXCEPT !.vault = out.vault,
                                            !.detect_calls = out.detect_calls],
                                  "rejected")]
        blinded(out) ==
            /\ req' = [req EXCEPT ![r] =
                         [@ EXCEPT !.pc = "save_user", !.vault = out.vault,
                                   !.blinded_prompt = out.blinded_text,
                                   !.threats = ThreatDicts(out.threats),
                                   !.detect_calls = out.detect_calls,
                                   !.created = Created(req[r].vault, out.vault),
                                   !.uses = Stands(out.vault, out.kept)]]
            /\ UNCHANGED events
        returned(out) == IF out.raised THEN rejected(out) ELSE blinded(out)
    IN /\ req[r].pc = "prompt"
       /\ \E entities \in Detections(_strip_unicode_threats(req[r].message)) :
              returned(process_prompt(req[r].vault, req[r].message, entities))
       /\ UNCHANGED <<db, llm_log, up, pipe, vt, svc>>

\* a row of the messages table; `by` and `stands` record who wrote it and what
\* its pseudonyms stand for
MessageRow(r, role, lawyer_content, blinded_content, threats_detected, stands) ==
    [id |-> Len(db.messages) + 1, role |-> role, lawyer_content |-> lawyer_content,
     blinded_content |-> blinded_content, threats_detected |-> threats_detected,
     by |-> r, stands |-> stands]

\* step 3 as it would be without the commit: the row is not among the
\* committed rows when the request goes on
SaveUserMessage_no_commit(r) ==
    /\ req[r].pc = "save_user"
    /\ req' = [req EXCEPT ![r] = [@ EXCEPT !.pc = "history",
                                           !.user_msg = Len(db.messages) + 1]]
    /\ UNCHANGED <<db, events, llm_log, up, pipe, vt, svc>>

\* step 3: create_message for the user message, and the commit
SaveUserMessage(r) ==
    /\ req[r].pc = "save_user"
    /\ db' = [db EXCEPT !.messages =
                 Append(@, MessageRow(r, "user", req[r].message, req[r].blinded_prompt,
                                      req[r].threats, req[r].uses))]
    /\ req' = [req EXCEPT ![r] = [@ EXCEPT !.pc = "history",
                                           !.user_msg = Len(db.messages) + 1]]
    /\ UNCHANGED <<events, llm_log, up, pipe, vt, svc>>

\* steps 4 and 5: the history (without the message just saved) and the
\* documents that have a blinded text
LoadContext(r) ==
    LET others == SelectSeq(db.messages, LAMBDA msg : msg.id # req[r].user_msg)
        docs_with_text == SelectSeq(db.documents, LAMBDA doc : doc.blinded_text # <<>>)
    IN /\ req[r].pc = "history"
       /\ req' = [req EXCEPT ![r] =
                    [@ EXCEPT !.pc = "domain",
                              !.conversation_history =
                                  [i \in 1..Len(others) |->
                                      Message(others[i].role, others[i].blinded_content)],
                              !.documents =
                                  [i \in 1..Len(docs_with_text) |->
                                      [filename |-> docs_with_text[i].filename,
                                       blinded_text |-> docs_with_text[i].blinded_text]]]]
       /\ UNCHANGED <<db, events, llm_log, up, pipe, vt, svc>>

\* httpx.HTTPStatusError for a response with the status code
HTTPStatusError(status_code) == [type |-> "HTTPStatusError", status_code |-> status_code]

\* an exception of another class
Error(type) == [type |-> type]

\* the record of an exception raised at the step the request is at
RaisedAt(r, exc) == [exc |-> exc, step |-> req[r].pc]

\* what a non-streaming call of the LLM client can come back with: a reply,
\* or RAISED (one symbol, no reply text has it) for an exception of the call
RAISED == <<"<exception>">>

DOMAIN_REPLIES == {<<" ", "L", "e", "g", "a", "l", ".">>, RAISED}

TITLE_REPLIES ==
    {<<"\"", "[", "P", "E", "R", "S", "O", "N", "_", "1", "]", " ", "c", "h", "a", "t", ".", "\"">>,
     RAISED}

\* the chunks a streamed answer is made of
CHUNKS == {<<"[", "P", "E", "R", "S", "O", "N", "_", "1", "]">>}

\* get_context_window_size: the value Ollama falls back to, and the OpenAI default
CONTEXT_WINDOWS == {4096, 128000}

\* a call of the LLM client: what it is for, the payload handed over, the reply
LLMCall(kind, payload, response) == [kind |-> kind, payload |-> payload, response |-> response]

\* step 6: the domain of the session, detected by the LLM on the first message
\* of a session that has none.  session_obj was read in step 1.
DetectDomain(r) ==
    LET detected(reply, domain) ==
            /\ llm_log' = [llm_log EXCEPT ![r] =
                             Append(@, LLMCall("domain", DomainMessages(req[r].blinded_prompt),
                                               reply))]
            /\ db' = [db EXCEPT !.domain = domain]
            /\ req' = [req EXCEPT ![r] =
                         [@ EXCEPT !.pc = "build", !.domain = domain,
                                   !.detected_domain = domain,
                                   !.raised = IF reply = RAISED
                                              THEN Append(@, RaisedAt(r, Error("Exception")))
                                              ELSE @]]
    IN /\ req[r].pc = "domain"
       /\ IF req[r].session_domain = <<>> /\ req[r].conversation_history = <<>>
          THEN \E reply \in DOMAIN_REPLIES :
                   detected(reply, IF reply = RAISED THEN GENERAL ELSE DomainOfReply(reply))
          ELSE /\ req' = [req EXCEPT ![r] =
                            [@ EXCEPT !.pc = "build",
                                      !.domain = IF req[r].session_domain = <<>>
                                                 THEN GENERAL ELSE req[r].session_domain]]
               /\ UNCHANGED <<db, llm_log>>
       /\ UNCHANGED <<events, up, pipe, vt, svc>>

\* step 7: no document is tabular and the documents fit the window, so the
\* messages are built in stuff mode
BuildContext(r) ==
    LET blinded_documents ==
            [i \in 1..Len(req[r].documents) |-> req[r].documents[i].blinded_text]
        source_metadata ==
            [i \in 1..Len(req[r].documents) |-> SourceMeta(i, req[r].documents[i].filename)]
        built(llm_messages) ==
            /\ llm_messages # <<>>
            /\ req' = [req EXCEPT ![r] = [@ EXCEPT !.pc = "audit",
                                                   !.llm_messages = llm_messages]]
    IN /\ req[r].pc = "build"
       /\ \E context_window \in CONTEXT_WINDOWS :
              /\ ~(SumTokens(blinded_documents) * 10 > ((context_window * 8) \div 10) * 6)
              /\ built(build_messages(blinded_documents, req[r].conversation_history,
                                      req[r].blinded_prompt, req[r].domain,
                                      source_metadata, context_window))
       /\ llm_log' = [llm_log EXCEPT ![r] =
                        Append(@, LLMCall("get_context_window_size", <<>>, <<>>))]
       /\ UNCHANGED <<db, events, up, pipe, vt, svc>>

\* a row of the audit log, as create_audit_log is given it; `by` records the
\* request that wrote it
AuditRow(r, event_type, payload_blinded, payload_hash) ==
    [event_type |-> event_type, payload_blinded |-> payload_blinded,
     payload_hash |-> payload_hash, by |-> r]

\* step 7c as it would be without the commit
AuditRequest_no_commit(r) ==
    /\ req[r].pc = "audit"
    /\ req' = [req EXCEPT ![r] = [@ EXCEPT !.pc = "start"]]
    /\ UNCHANGED <<db, events, llm_log, up, pipe, vt, svc>>

\* step 7c: the llm_request audit record, and the commit
AuditRequest(r) ==
    LET logged(request_payload_json) ==
            db' = [db EXCEPT !.audit_logs =
                     Append(@, AuditRow(r, "llm_request", request_payload_json,
                                        sha256(request_payload_json)))]
    IN /\ req[r].pc = "audit"
       /\ logged(json_dumps(req[r].llm_messages))
       /\ req' = [req EXCEPT ![r] = [@ EXCEPT !.pc = "start"]]
       /\ UNCHANGED <<events, llm_log, up, pipe, vt, svc>>

\* step 8: the start event
EmitStart(r) ==
    /\ req[r].pc = "start"
    /\ events' = [events EXCEPT ![r] = Append(@, [type |-> "start"])]
    /\ req' = [req EXCEPT ![r] = [@ EXCEPT !.pc = "stream"]]
    /\ UNCHANGED <<db, llm_log, up, pipe, vt, svc>>

\* the log once the streamed call has begun: llm_client.chat is entered when
\* the loop of step 9 asks for the first chunk
ChatBegun(r) ==
    IF \E n \in 1..Len(llm_log[r]) : llm_log[r][n].kind = "chat"
    THEN llm_log[r]
    ELSE Append(llm_log[r], LLMCall("chat", req[r].llm_messages, <<>>))

\* step 9, one round of the loop: a chunk arrives and is passed on
StreamChunk(r, chunk) ==
    /\ req[r].pc = "stream"
    /\ req[r].chunks < MaxChunks
    /\ llm_log' = [llm_log EXCEPT ![r] = ChatBegun(r)]
    /\ events' = [events EXCEPT ![r] = Append(@, [type |-> "chunk", content |-> chunk])]
    /\ req' = [req EXCEPT ![r] =
                 [@ EXCEPT !.full_blinded_response = @ \o chunk, !.chunks = @ + 1]]
    /\ UNCHANGED <<db, up, pipe, vt, svc>>

\* steps 9 and 10: the stream ends and the answer is restored
EndStream(r) ==
    /\ req[r].pc = "stream"
    /\ llm_log' = [llm_log EXCEPT ![r] = ChatBegun(r)]
    /\ \E restored_response \in restore(req[r].vault, req[r].full_blinded_response) :
           req' = [req EXCEPT ![r] = [@ EXCEPT !.pc = "save_assistant",
                                               !.restored_response = restored_response]]
    /\ UNCHANGED <<db, events, up, pipe, vt, svc>>

\* step 12: create_message for the assistant message, and the commit
SaveAssistant(r) ==
    /\ req[r].pc = "save_assistant"
    /\ db' = [db EXCEPT !.messages =
                 Append(@, MessageRow(r, "assistant", req[r].restored_response,
                                      req[r].full_blinded_response, <<>>, {}))]
    /\ req' = [req EXCEPT ![r] = [@ EXCEPT !.pc = "audit_response",
                                           !.assistant_msg = Len(db.messages) + 1]]
    /\ UNCHANGED <<events, llm_log, up, pipe, vt, svc>>

\* step 12b as it would be with the hash taken of the restored answer
AuditResponse_hash_of_restored(r) ==
    /\ req[r].pc = "audit_response"
    /\ db' = [db EXCEPT !.audit_logs =
                 Append(@, AuditRow(r, "llm_response", req[r].full_blinded_response,
                                    sha256(req[r].restored_response)))]
    /\ req' = [req EXCEPT ![r] = [@ EXCEPT !.pc = "existing"]]
    /\ UNCHANGED <<events, llm_log, up, pipe, vt, svc>>

\* step 12b: the llm_response audit record, and the commit
AuditResponse(r) ==
    /\ req[r].pc = "audit_response"
    /\ db' = [db EXCEPT !.audit_logs =
                 Append(@, AuditRow(r, "llm_response", req[r].full_blinded_response,
                                    sha256(req[r].full_blinded_response)))]
    /\ req' = [req EXCEPT ![r] = [@ EXCEPT !.pc = "existing"]]
    /\ UNCHANGED <<events, llm_log, up, pipe, vt, svc>>

\* a row of vault_entries for a vault entry, the value encrypted under a
\* fresh nonce; `by` records who wrote it
VaultRow(by, n, vault_entry) ==
    [entity_type |-> vault_entry.entity_type, pseudonym |-> vault_entry.pseudonym,
     encrypted_value |-> encrypt(vault_entry.real_value, encryption_key,
                                 [by |-> by, n |-> n]).ciphertext,
     nonce |-> [by |-> by, n |-> n],
     aliases |-> vault_entry.aliases, by |-> by]

\* the pseudonyms of the rows
Pseudonyms(rows) == {rows[i].pseudonym : i \in 1..Len(rows)}

\* the vault entries whose pseudonym is not among existing_pseudonyms
NewEntries(vault, existing_pseudonyms) ==
    SelectSeq(get_all_entries(vault), LAMBDA e : e.pseudonym \notin existing_pseudonyms)

\* the unique constraint on (session_id, pseudonym) refuses one of the rows
UniqueViolation(new_entries) ==
    \E k \in 1..Len(new_entries) : new_entries[k].pseudonym \in Pseudonyms(db.vault_entries)

\* f"LLM provider returned an error (HTTP {status})." for the status codes
\* of the model
ProviderErrorText(status) ==
    CASE status = 500 -> "LLM provider returned an error (HTTP 500)."
      [] status = 503 -> "LLM provider returned an error (HTTP 503)."

\* the handler as it would be if it passed on the text of the exception
SafeError_text_of_exception(exc) == exc.type

\* the safe_error of the handler at the end of event_generator
SafeError(exc) ==
    IF exc.type = "HTTPStatusError"
    THEN CASE exc.status_code = 401
                  -> "LLM provider authentication failed. Check your API key in Settings."
           [] exc.status_code = 429
                  -> "LLM provider rate limit exceeded. Please wait and try again."
           [] exc.status_code = 404
                  -> "LLM model not found. Check your model selection."
           [] OTHER -> ProviderErrorText(exc.status_code)
    ELSE IF exc.type = "ConnectError"
         THEN "Cannot connect to LLM provider. Is Ollama running?"
         ELSE "Something went wrong processing your message. Check server logs for details."

\* the handler as it would be if the generator went on after the error event
Raise_and_go_on(r, exc) ==
    /\ events' = [events EXCEPT ![r] =
                    Append(@, [type |-> "error", error |-> SafeError(exc)])]
    /\ UNCHANGED req

\* `except Exception`: one error event with the safe message, and the
\* generator returns; what was not committed is lost with the DB session
Raise(r, exc) ==
    /\ events' = [events EXCEPT ![r] =
                    Append(@, [type |-> "error", error |-> SafeError(exc)])]
    /\ req' = [req EXCEPT ![r] =
                 Finished([@ EXCEPT !.raised = Append(@, RaisedAt(r, exc))], "failed")]

\* step 13, the read: the pseudonyms stored by now
ReadExisting(r) ==
    /\ req[r].pc = "existing"
    /\ req' = [req EXCEPT ![r] = [@ EXCEPT !.pc = "save_vault",
                                           !.existing_pseudonyms = Pseudonyms(db.vault_entries)]]
    /\ UNCHANGED <<db, events, llm_log, up, pipe, vt, svc>>

\* step 13, the writes and the commit: a row for each entry whose pseudonym
\* was not stored at the read; a pseudonym stored since then is refused by the
\* unique constraint, and the IntegrityError ends the request
SaveVault(r) ==
    LET saved(new_entries) ==
            IF UniqueViolation(new_entries)
            THEN Raise(r, Error("IntegrityError")) /\ UNCHANGED db
            ELSE /\ db' = [db EXCEPT !.vault_entries =
                              @ \o [k \in 1..Len(new_entries) |-> VaultRow(r, k, new_entries[k])]]
                 /\ req' = [req EXCEPT ![r] = [@ EXCEPT !.pc = "title"]]
                 /\ UNCHANGED events
    IN /\ req[r].pc = "save_vault"
       /\ saved(NewEntries(req[r].vault, req[r].existing_pseudonyms))
       /\ UNCHANGED <<llm_log, up, pipe, vt, svc>>

\* step 14: the title of the session, asked of the LLM after the first
\* message; an exception is logged and the request goes on without a title
GenerateTitle(r) ==
    LET titled(reply, generated_title) ==
            /\ llm_log' = [llm_log EXCEPT ![r] =
                             Append(@, LLMCall("title", TitleMessages(req[r].blinded_prompt),
                                               reply))]
            /\ db' = [db EXCEPT !.title = generated_title]
            /\ req' = [req EXCEPT ![r] = [@ EXCEPT !.pc = "emit_done",
                                                   !.generated_title = generated_title]]
        untitled(reply) ==
            /\ llm_log' = [llm_log EXCEPT ![r] =
                             Append(@, LLMCall("title", TitleMessages(req[r].blinded_prompt),
                                               reply))]
            /\ req' = [req EXCEPT ![r] =
                         [@ EXCEPT !.pc = "emit_done",
                                   !.raised = Append(@, RaisedAt(r, Error("Exception")))]]
            /\ UNCHANGED db
    IN /\ req[r].pc = "title"
       /\ IF req[r].conversation_history = <<>>
          THEN \E reply \in TITLE_REPLIES :
                   IF reply = RAISED THEN untitled(reply)
                   ELSE \E generated_title \in restore(req[r].vault, CleanTitle(reply)) :
                            titled(reply, generated_title)
          ELSE /\ req' = [req EXCEPT ![r] = [@ EXCEPT !.pc = "emit_done"]]
               /\ UNCHANGED <<db, llm_log>>
       /\ UNCHANGED <<events, up, pipe, vt, svc>>

\* step 15: the done event; title and domain are present when set
EmitDone(r) ==
    /\ req[r].pc = "emit_done"
    /\ events' = [events EXCEPT ![r] =
                    Append(@, [type |-> "done",
                               lawyer_content |-> req[r].restored_response,
                               blinded_content |-> req[r].full_blinded_response,
                               message_id |-> req[r].assistant_msg,
                               title |-> req[r].generated_title,
                               domain |-> req[r].detected_domain])]
    /\ req' = [req EXCEPT ![r] = Finished(@, "done")]
    /\ UNCHANGED <<db, llm_log, up, pipe, vt, svc>>

\* the exceptions a step can raise: the streamed call those of httpx, a step
\* that awaits the database or the pipeline any other
Exceptions(pc) ==
    IF pc = "stream"
    THEN {HTTPStatusError(401), HTTPStatusError(429), HTTPStatusError(404),
          HTTPStatusError(500), HTTPStatusError(503), Error("ConnectError"),
          Error("Exception")}
    ELSE IF pc \in {"prompt", "save_user", "history", "domain", "build", "audit",
                    "save_assistant", "audit_response", "existing", "save_vault"}
         THEN {Error("Exception")}
         ELSE {}

\* the step the request is at raises exc
Fail(r, exc) ==
    /\ exc \in Exceptions(req[r].pc)
    /\ llm_log' = [llm_log EXCEPT ![r] = IF req[r].pc = "stream" THEN ChatBegun(r) ELSE @]
    /\ Raise(r, exc)
    /\ UNCHANGED <<db, up, pipe, vt, svc>>

\* the client goes away: the generator is closed where it is suspended
\* (GeneratorExit and CancelledError are no Exception) and emits nothing more
Cancel(r) ==
    /\ req[r].pc \notin {"idle", "rejected", "failed", "done", "cancelled"}
    /\ req' = [req EXCEPT ![r] = Finished(@, "cancelled")]
    /\ UNCHANGED <<db, events, llm_log, up, pipe, vt, svc>>

\* ------------------------------------------------------------- the upload

\* process_document, step 2: the upload rebuilds the vault from db_entries
UploadLoad ==
    /\ up.pc = "idle"
    /\ up' = [up EXCEPT !.pc = "process", !.nloaded = Len(db.vault_entries),
                        !.vault = load_entries(EmptyVault, LoadedEntries(db.vault_entries))]
    /\ UNCHANGED <<db, req, events, llm_log, pipe, vt, svc>>

\* step 3, a prose file: both gates run; HighSeverityThreatError is not
\* caught and ends the upload
UploadProcess ==
    LET returned(out, pii_count) ==
            IF out.raised
            THEN up' = [up EXCEPT !.pc = "failed"]
            ELSE up' = [up EXCEPT !.pc = "save", !.vault = out.vault,
                                  !.blinded_text = out.blinded_text,
                                  !.pii_count = pii_count,
                                  !.created = Created(up.vault, out.vault),
                                  !.uses = Stands(out.vault, out.kept)]
    IN /\ up.pc = "process"
       /\ \E entities \in Detections(_strip_unicode_threats(UPLOAD_TEXT)) :
              returned(process_document(up.vault, UPLOAD_TEXT, entities), Len(entities))
       /\ UNCHANGED <<db, req, events, llm_log, pipe, vt, svc>>

\* steps 4 and 6 and the commit of get_db: the document (raw_text set to
\* NULL) and a row for each entry whose pseudonym was not among db_entries,
\* the rows read in step 2.  A pseudonym stored since then is refused by the
\* unique constraint and the whole upload is rolled back.
UploadSave ==
    LET saved(new_entries) ==
            IF UniqueViolation(new_entries)
            THEN up' = [up EXCEPT !.pc = "failed"] /\ UNCHANGED db
            ELSE /\ db' = [db EXCEPT
                             !.documents =
                                 Append(@, [filename |-> UPLOAD_FILENAME, raw_text |-> <<>>,
                                            blinded_text |-> up.blinded_text,
                                            pii_count |-> up.pii_count,
                                            by |-> "u", stands |-> up.uses]),
                             !.vault_entries =
                                 @ \o [k \in 1..Len(new_entries) |->
                                          VaultRow("u", k, new_entries[k])]]
                 /\ up' = [up EXCEPT !.pc = "done"]
    IN /\ up.pc = "save"
       /\ saved(NewEntries(up.vault,
                           Pseudonyms(SubSeq(db.vault_entries, 1, up.nloaded))))
       /\ UNCHANGED <<req, events, llm_log, pipe, vt, svc>>

\* ------------------------------------------------------- the audit export

\* export_audit_report, the audit_logs of the report: each record as stored,
\* and whether the hash of its stored payload is the stored hash
export_audit_report(audit_logs) ==
    [i \in 1..Len(audit_logs) |->
        [event_type |-> audit_logs[i].event_type,
         payload_blinded |-> audit_logs[i].payload_blinded,
         payload_hash |-> audit_logs[i].payload_hash,
         payload_hash_verified |->
             (sha256(audit_logs[i].payload_blinded) = audit_logs[i].payload_hash)]]

\* export_audit_report, entities_by_type: the number of vault rows of each type
entities_by_type(vault_entries) ==
    [entity_type \in {vault_entries[i].entity_type : i \in 1..Len(vault_entries)} |->
        Cardinality({i \in 1..Len(vault_entries) :
                         vault_entries[i].entity_type = entity_type})]

\* export_audit_report, the report of the session: title and domain of the
\* session row, the audit records, the blinded content of the messages, the
\* metadata of the documents, and the counts of the vault
ExportedReport ==
    [session |-> [title |-> db.title, domain |-> db.domain],
     audit_logs |-> export_audit_report(db.audit_logs),
     messages |-> [i \in 1..Len(db.messages) |->
                      [id |-> db.messages[i].id, role |-> db.messages[i].role,
                       blinded_content |-> db.messages[i].blinded_content]],
     documents |-> [i \in 1..Len(db.documents) |->
                       [filename |-> db.documents[i].filename,
                        pii_count |-> db.documents[i].pii_count]],
     vault_stats |-> [total_entities |-> Len(db.vault_entries),
                      entities_by_type |-> entities_by_type(db.vault_entries)]]

\* ------------------------------------------------------- the specification

Next ==
    \/ \E r \in CHATS :
           \/ \E message \in MESSAGES(r) : LoadVault(r, message)
           \/ ProcessPrompt(r)
           \/ SaveUserMessage(r)
           \/ LoadContext(r)
           \/ DetectDomain(r)
           \/ BuildContext(r)
           \/ AuditRequest(r)
           \/ EmitStart(r)
           \/ \E chunk \in CHUNKS : StreamChunk(r, chunk)
           \/ EndStream(r)
           \/ SaveAssistant(r)
           \/ AuditResponse(r)
           \/ ReadExisting(r)
           \/ SaveVault(r)
           \/ GenerateTitle(r)
           \/ EmitDone(r)
           \/ \E exc \in Exceptions(req[r].pc) : Fail(r, exc)
           \/ Cancel(r)
    \/ UploadLoad
    \/ UploadProcess
    \/ UploadSave

Spec == Init /\ [][Next]_vars


\* ------------------------------------------------- what the runs are held to

\* the request has ended: the generator has returned or was closed
Ended(r) == req[r].pc \in {"rejected", "failed", "done", "cancelled"}

\* the request has emitted an event of the type
Emitted(r, type) == \E n \in 1..Len(events[r]) : events[r][n].type = type

\* the request has made a call of the kind to the LLM client
Called_LLM(r, kind) == \E n \in 1..Len(llm_log[r]) : llm_log[r][n].kind = kind

\* the row of the user message the request committed, 0 when there is none
UserRow(r) ==
    IF \E i \in 1..Len(db.messages) : db.messages[i].by = r /\ db.messages[i].role = "user"
    THEN CHOOSE i \in 1..Len(db.messages) :
             db.messages[i].by = r /\ db.messages[i].role = "user"
    ELSE 0

\* --------------------------------------------------- C1: what reaches the LLM

\* the chat payloads that can be assembled from the blinded prompt `new_prompt`,
\* the blinded_content of the `history` rows and the blinded_text of the first
\* documents of the session, under the fixed prompt text of a domain
BlindedPayloads(history, new_prompt) ==
    {_build_stuffed(get_system_prompt(SUPPORTED_DOMAINS[d]),
                    _combine_documents([i \in 1..k |-> db.documents[i].blinded_text]),
                    [i \in 1..Len(history) |->
                        Message(history[i].role, history[i].blinded_content)],
                    new_prompt) :
         d \in 1..Len(SUPPORTED_DOMAINS), k \in 0..Len(db.documents)}

Bindings ==
    {[pseudonym |-> db.vault_entries[i].pseudonym,
      real_value |-> decrypt(db.vault_entries[i].encrypted_value, encryption_key,
                             db.vault_entries[i].nonce)] :
         i \in 1..Len(db.vault_entries)}
        \cup UNION {db.messages[i].stands : i \in 1..Len(db.messages)}
        \cup UNION {db.documents[i].stands : i \in 1..Len(db.documents)}

\* the chat request and the upload both loaded the vault before either
\* committed a vault entry
BothLoadedFirst(r) ==
    /\ req[r].pc # "idle"
    /\ up.pc # "idle"
    /\ \A i \in 1..req[r].nloaded : db.vault_entries[i].by # "u"
    /\ \A i \in 1..up.nloaded : db.vault_entries[i].by # r

\* C3: when a chat request and an upload of the session both loaded the vault
\* before either committed new entries and both have finished, no pseudonym
\* stands for two different real values across the committed vault entries,
\* messages and documents.
C3_PseudonymsBijective ==
    \A r \in CHATS :
        (BothLoadedFirst(r) /\ Ended(r) /\ up.pc \in {"done", "failed"}) =>
            \A a, b \in Bindings : a.pseudonym = b.pseudonym => a.real_value = b.real_value

\* ------------------------------------------------ C4: committed before done

\* the vault entry is stored: a committed row binds its pseudonym to its value
Stored(vault_entry) ==
    \E i \in 1..Len(db.vault_entries) :
        /\ db.vault_entries[i].pseudonym = vault_entry.pseudonym
        /\ decrypt(db.vault_entries[i].encrypted_value, encryption_key,
                   db.vault_entries[i].nonce) = vault_entry.real_value

\* C4: when a chat request has emitted done, its assistant message, its
\* llm_response audit record and every vault entry created during the request
\* are committed.
C4_CommittedBeforeDone ==
    \A r \in CHATS :
        Emitted(r, "done") =>
            /\ \E i \in 1..Len(db.messages) :
                   db.messages[i].by = r /\ db.messages[i].role = "assistant"
            /\ \E i \in 1..Len(db.audit_logs) :
                   db.audit_logs[i].by = r /\ db.audit_logs[i].event_type = "llm_response"
            /\ \A k \in 1..Len(req[r].created) : Stored(req[r].created[k])

\* ---------------------------------------------- C5: the next request's vault

\* C5: for two chat requests run one after the other, the first ended with
\* done: every real value the first created a pseudonym for is bound to that
\* pseudonym in the vault the second rebuilds from storage, and the second
\* never issues that pseudonym for another real value.
C5_NextRequestKeepsBindings ==
    \A p \in CHATS : \A q \in req[p].after :
        \A k \in 1..Len(req[q].created) :
            /\ req[p].pc = "prompt" =>
                   get_pseudonym(req[p].vault, req[q].created[k].real_value)
                       = req[q].created[k].pseudonym
            /\ \A u \in req[p].uses :
                   u.pseudonym = req[q].created[k].pseudonym =>
                       u.real_value = req[q].created[k].real_value


\* ------------------------------------------- C6: the user message comes first

\* C6: when a chat request has made a call of any kind to the LLM client (the
\* domain classification included), its user message is committed with the
\* clear text, the blinded text and the threats.
C6_UserMessageCommittedBeforeLLM ==
    \A r \in CHATS :
        llm_log[r] # <<>> =>
            /\ UserRow(r) # 0
            /\ db.messages[UserRow(r)].lawyer_content = req[r].message
            /\ ~Ended(r) =>
                   /\ db.messages[UserRow(r)].blinded_content = req[r].blinded_prompt
                   /\ db.messages[UserRow(r)].threats_detected = req[r].threats

\* the first call a request made to the LLM client is the domain classification
C6_Witness ==
    \E r \in CHATS :
        /\ llm_log[r] # <<>>
        /\ llm_log[r][1].kind = "domain"
        /\ UserRow(r) # 0

\* --------------------------------------- C7: the request audit before the stream

\* C7: when a chat request has emitted start or begun the streamed call, its
\* llm_request audit record, holding the serialised message list and the
\* SHA-256 hash of it, is committed.
C7_RequestAuditedBeforeStart ==
    \A r \in CHATS :
        LET audited(llm_messages) ==
                \E i \in 1..Len(db.audit_logs) :
                    /\ db.audit_logs[i].by = r
                    /\ db.audit_logs[i].event_type = "llm_request"
                    /\ db.audit_logs[i].payload_hash = sha256(db.audit_logs[i].payload_blinded)
                    /\ db.audit_logs[i].payload_blinded = json_dumps(llm_messages)
        IN /\ (Emitted(r, "start") \/ Called_LLM(r, "chat")) =>
                  \E i \in 1..Len(db.audit_logs) :
                      /\ db.audit_logs[i].by = r
                      /\ db.audit_logs[i].event_type = "llm_request"
                      /\ db.audit_logs[i].payload_hash = sha256(db.audit_logs[i].payload_blinded)
           /\ req[r].pc = "stream" => audited(req[r].llm_messages)
           /\ \A n \in 1..Len(llm_log[r]) :
                  llm_log[r][n].kind = "chat" => audited(llm_log[r][n].payload)

\* a request has emitted start and begun the streamed call
C7_Witness ==
    \E r \in CHATS : Emitted(r, "start") /\ Called_LLM(r, "chat")

\* ----------------------------------------------- C8: the shape of the stream

\* the types of the events
Types(evs) == [n \in 1..Len(evs) |-> evs[n].type]

\* one start, then chunks, then one terminal event
StartChunksTerminal(types) ==
    /\ Len(types) >= 2
    /\ types[1] = "start"
    /\ \A n \in 2..(Len(types) - 1) : types[n] = "chunk"
    /\ types[Len(types)] \in {"done", "error"}

\* C8, as stated: the events of a chat request that has run to its end are one
\* start, then zero or more chunks, then exactly one terminal done or error.
C8_StartChunksTerminal ==
    \A r \in CHATS :
        req[r].pc \in {"rejected", "failed", "done"} => StartChunksTerminal(Types(events[r]))

\* C8, amended: the events of a chat request that has run to its end are
\* either a single error and no start, or one start, then zero or more chunks,
\* then exactly one terminal done or error; nothing follows a terminal event,
\* no chunk or done comes before start, and a request cut short has emitted a
\* prefix of such a sequence.
C8_ErrorAloneOrStartChunksTerminal ==
    \A r \in CHATS :
        LET types == Types(events[r])
        IN /\ req[r].pc \in {"rejected", "failed", "done"} =>
                  types = <<"error">> \/ StartChunksTerminal(types)
           /\ \A n \in 1..Len(types) :
                  /\ types[n] = "start" => n = 1
                  /\ types[n] = "chunk" =>
                         n > 1 /\ types[1] = "start" /\ \A m \in 2..n : types[m] = "chunk"
                  /\ types[n] = "done" => n > 1 /\ types[1] = "start"
                  /\ types[n] \in {"done", "error"} => n = Len(types) /\ Ended(r)

\* one request ended after start and a chunk, the other with a single error
C8_Witness ==
    /\ Types(events["r1"]) = <<"start", "chunk", "done">>
    /\ req["r2"].pc = "failed"
    /\ Types(events["r2"]) = <<"error">>

\* ------------------------------------------------- C9: a high-severity threat

\* the rows of a table the request wrote
RowsBy(rows, r) == SelectSeq(rows, LAMBDA row : row.by = r)

\* the high-severity threats the sanitiser reports for each message
HighThreats ==
    [message \in UNION {MESSAGES(r) : r \in CHATS} |-> high_threats(sanitize(message))]

\* C9: a chat request whose prompt has a high-severity threat goes no further
\* than the pipeline.  When it has ended there, it has emitted exactly one
\* error event carrying the threats; it has persisted no message, no audit
\* record and no vault entry, has called neither the PII detector nor the LLM
\* client, and its vault is as it was loaded.
C9_ThreatRejected ==
    \A r \in CHATS :
        LET threatened(found) ==
                found # <<>> =>
                    /\ req[r].pc \in {"prompt", "rejected", "failed", "cancelled"}
                    /\ RowsBy(db.messages, r) = <<>>
                    /\ RowsBy(db.audit_logs, r) = <<>>
                    /\ RowsBy(db.vault_entries, r) = <<>>
                    /\ llm_log[r] = <<>>
                    /\ req[r].detect_calls = 0
                    /\ req[r].vault
                           = load_entries(EmptyVault,
                                          LoadedEntries(SubSeq(db.vault_entries, 1,
                                                               req[r].nloaded)))
                    /\ req[r].pc = "rejected" =>
                           events[r] = <<[type |-> "error",
                                          error |-> "High severity threat detected",
                                          threats |-> ThreatDicts(found)]>>
        IN /\ req[r].pc # "idle" => threatened(HighThreats[req[r].message])
           /\ req[r].pc = "rejected" => HighThreats[req[r].message] # <<>>

\* a request was rejected while the vault it had loaded held an entry
C9_Witness ==
    \E r \in CHATS :
        /\ req[r].pc = "rejected"
        /\ req[r].nloaded >= 1
        /\ Len(events[r]) = 1
        /\ events[r][1].threats # <<>>

\* ---------------------------------------------------- C10: the audit of calls

\* C10: when a chat request has ended with done, every request it sent to the
\* LLM client (domain classification, streamed chat, title generation) is
\* recorded by a committed llm_request audit record containing the payload
\* sent, and every response by an llm_response audit record.
C10_EveryCallAudited ==
    \A r \in CHATS :
        req[r].pc = "done" =>
            \A n \in 1..Len(llm_log[r]) :
                llm_log[r][n].kind \in {"domain", "chat", "title"} =>
                    /\ \E i \in 1..Len(db.audit_logs) :
                           db.audit_logs[i]
                               = AuditRow(r, "llm_request", json_dumps(llm_log[r][n].payload),
                                          sha256(json_dumps(llm_log[r][n].payload)))
                    /\ llm_log[r][n].kind = "chat" =>
                           \E i \in 1..Len(db.audit_logs) :
                               /\ db.audit_logs[i].by = r
                               /\ db.audit_logs[i].event_type = "llm_response"
                    /\ (llm_log[r][n].kind # "chat" /\ llm_log[r][n].response # RAISED) =>
                           \E i \in 1..Len(db.audit_logs) :
                               db.audit_logs[i]
                                   = AuditRow(r, "llm_response", llm_log[r][n].response,
                                              sha256(llm_log[r][n].response))

\* ------------------------------------------------- C11: the hash of a record

\* C11: in every reachable state the payload_hash of each persisted audit
\* record is the SHA-256 digest of its stored payload_blinded, and the export
\* reports payload_hash_verified true for every record.
C11_AuditHashMatchesPayload ==
    LET report == export_audit_report(db.audit_logs)
    IN \A i \in 1..Len(db.audit_logs) :
           /\ db.audit_logs[i].payload_hash = sha256(db.audit_logs[i].payload_blinded)
           /\ report[i].payload_hash_verified

\* a request has written both records, and its answer held a pseudonym that
\* the restored answer does not hold
C11_Witness ==
    \E r \in CHATS :
        /\ \E i \in 1..Len(db.audit_logs) :
               db.audit_logs[i].by = r /\ db.audit_logs[i].event_type = "llm_request"
        /\ \E i \in 1..Len(db.audit_logs), k \in 1..Len(db.messages) :
               /\ db.audit_logs[i].by = r
               /\ db.audit_logs[i].event_type = "llm_response"
               /\ db.messages[k].by = r
               /\ db.messages[k].role = "assistant"
               /\ db.messages[k].blinded_content = db.audit_logs[i].payload_blinded
               /\ db.messages[k].lawyer_content # db.audit_logs[i].payload_blinded

\* ------------------------------------------- C12: what an exception shows

\* the events of the type among those the request has emitted
EventsOfType(r, type) == SelectSeq(events[r], LAMBDA ev : ev.type = type)

\* the request has ended with one error event, carrying the message and
\* nothing else, and with no done event
EndedWithError(r, message) ==
    /\ req[r].pc = "failed"
    /\ EventsOfType(r, "error") = <<[type |-> "error", error |-> message]>>
    /\ events[r][Len(events[r])].type = "error"
    /\ EventsOfType(r, "done") = <<>>

\* the fixed message the statement gives for an exception
StatedMessage(exc) ==
    IF exc = HTTPStatusError(401)
    THEN "LLM provider authentication failed. Check your API key in Settings."
    ELSE IF exc = HTTPStatusError(429)
    THEN "LLM provider rate limit exceeded. Please wait and try again."
    ELSE IF exc = HTTPStatusError(404)
    THEN "LLM model not found. Check your model selection."
    ELSE IF exc = Error("ConnectError")
    THEN "Cannot connect to LLM provider. Is Ollama running?"
    ELSE "Something went wrong processing your message. Check server logs for details."

\* C12, as stated: a request in which an exception was raised at some step,
\* and which was not cut short, has ended with exactly one error event whose
\* message is the fixed string of the exception (401, 429, 404, connection
\* error, else the generic one), and with no done event.
C12_EveryExceptionEndsWithFixedMessage ==
    \A r \in CHATS :
        req[r].pc \in {"failed", "done"} =>
            \A n \in 1..Len(req[r].raised) :
                EndedWithError(r, StatedMessage(req[r].raised[n].exc))

\* the message for an exception, the other HTTP statuses included
StatusMessage(exc) ==
    IF exc = HTTPStatusError(500) THEN "LLM provider returned an error (HTTP 500)."
    ELSE IF exc = HTTPStatusError(503) THEN "LLM provider returned an error (HTTP 503)."
    ELSE StatedMessage(exc)

\* C12, amended: an exception raised at a step other than the domain
\* detection and the title generation (both recover and the request goes on)
\* ends the request at once with exactly one error event and no done event;
\* the message is the fixed string of the exception, which for an HTTP status
\* other than 401, 429 and 404 names the status code and nothing else of the
\* exception.
C12_UnrecoveredExceptionEndsWithSafeMessage ==
    \A r \in CHATS :
        \A n \in 1..Len(req[r].raised) :
            req[r].raised[n].step \notin {"domain", "title"} =>
                /\ n = Len(req[r].raised)
                /\ EndedWithError(r, StatusMessage(req[r].raised[n].exc))

\* the first request ended with done after its title call raised, the second
\* ended on HTTP 503 from the streamed call, after start
C12_Witness ==
    /\ req["r1"].pc = "done"
    /\ \E n \in 1..Len(req["r1"].raised) : req["r1"].raised[n].step = "title"
    /\ req["r2"].pc = "failed"
    /\ req["r2"].raised = <<[exc |-> HTTPStatusError(503), step |-> "stream"]>>
    /\ Types(events["r2"]) = <<"start", "error">>

\* --------------------------------------------- C13: the numbers of a vault

\* the number N of a pseudonym [T_N]
NumberOf(pseudonym) == ParseInt(RSplit1(Strip(pseudonym, {"[", "]"}), "_")[2])

\* the numbers of the entries of the type that the vault holds
NumbersOf(vault, entity_type) ==
    {NumberOf(vault.entries[n].k) :
        n \in {k \in 1..Len(vault.entries) : vault.entries[k].v.entity_type = entity_type}}

\* the largest number of a set of numbers, 0 for none
Largest(numbers) ==
    IF numbers = {} THEN 0 ELSE CHOOSE n \in numbers : \A k \in numbers : k <= n

\* the last call was add_entity for a real value the vault did not map
AddedNew ==
    /\ vt.last.kind = "add_entity"
    /\ ~DictHas(vt.last.before.forward, vt.last.arg.real_value)

\* C13: in one vault no two entries share a pseudonym, every number is at
\* least 1, and the pseudonym add_entity creates for a new real value of type
\* T has the number one above the largest number of type T the vault held
\* before the call (loaded or created), and is the pseudonym of no entry held
\* before.
C13_NumbersContinue ==
    /\ \A i, j \in 1..Len(vt.vault.entries) :
           i # j => vt.vault.entries[i].v.pseudonym # vt.vault.entries[j].v.pseudonym
    /\ \A i \in 1..Len(vt.vault.entries) : NumberOf(vt.vault.entries[i].v.pseudonym) >= 1
    /\ AddedNew =>
           /\ vt.last.result
                  = FormatPseudonym(vt.last.arg.entity_type,
                                    Largest(NumbersOf(vt.last.before,
                                                      vt.last.arg.entity_type)) + 1)
           /\ ~DictHas(vt.last.before.entries, vt.last.result)
           /\ DictHas(vt.vault.entries, vt.last.result)

\* after [PERSON_1] and [PERSON_10] were loaded, a new person is [PERSON_11]
C13_Witness ==
    /\ AddedNew
    /\ DictHas(vt.last.before.entries, FormatPseudonym(PERSON, 10))
    /\ vt.last.result = FormatPseudonym(PERSON, 11)

\* ------------------------------------------- C14: add_entity twice

\* the last call was add_entity for a real value the vault mapped already
AddedAgain ==
    /\ vt.last.kind = "add_entity"
    /\ DictHas(vt.last.before.forward, vt.last.arg.real_value)

\* C14: after any sequence of add_entity calls, add_entity for a real value
\* that is mapped already returns the pseudonym first assigned to it and
\* leaves the vault as it was: counters, entries and both maps.
C14_AddEntityIdempotent ==
    (AddedAgain /\ vt.only_add_entity) =>
        /\ vt.last.result = DictGet(vt.first, vt.last.arg.real_value)
        /\ vt.vault = vt.last.before

\* Al was added as a person, then Bo, then Al again as an organisation
C14_Witness ==
    /\ AddedAgain
    /\ vt.only_add_entity
    /\ vt.calls = 3
    /\ vt.last.arg = [real_value |-> AL, entity_type |-> ORG]
    /\ vt.last.result = FormatPseudonym(PERSON, 1)
    /\ Len(vt.vault.entries) = 2

\* ------------------------------------------- C15: what an alias resolves to

\* C15: after any sequence of add_entity, add_alias, resolve_prompt_entities
\* and load_entries on one vault, get_pseudonym of every alias of every entry
\* is the pseudonym of that entry, and get_pseudonym of the real value of
\* every pseudonym is that pseudonym.
C15_AliasesResolveToTheirEntry ==
    /\ \A n \in 1..Len(vt.vault.entries) :
           \A k \in 1..Len(vt.vault.entries[n].v.aliases) :
               get_pseudonym(vt.vault, vt.vault.entries[n].v.aliases[k])
                   = vt.vault.entries[n].v.pseudonym
    /\ \A n \in 1..Len(vt.vault.reverse) :
           get_pseudonym(vt.vault, get_real_value(vt.vault, vt.vault.reverse[n].k))
               = vt.vault.reverse[n].k

\* ------------------------------------------- C16: what resolving changes

\* the keys the forward map has after the call and had not before it
NewKeys(before, after) ==
    SelectSeq([n \in 1..Len(after.forward) |-> after.forward[n]],
              LAMBDA pair : ~DictHas(before.forward, pair.k))

\* the new keys that stand for the pseudonym, in the order they were set
NewKeysOf(before, after, pseudonym) ==
    LET pairs == SelectSeq(NewKeys(before, after), LAMBDA pair : pair.v = pseudonym)
    IN [n \in 1..Len(pairs) |-> pairs[n].k]

\* C16: resolve_prompt_entities creates no entry and advances no counter.
\* What it changes is that the text of a span that matched is an alias of the
\* matched pseudonym, which the vault held before: a key of the forward map and
\* a member of the aliases of that entry.  Reverse map, counters, the keys the
\* forward map had and every other field of every entry are as before; when
\* no span matches, the vault is as before.
C16_ResolveOnlyAddsAliases ==
    vt.last.kind = "resolve_prompt_entities" =>
        LET before == vt.last.before
            after == vt.vault
            spans == vt.last.arg.spans
            new == NewKeys(before, after)
        IN /\ after.reverse = before.reverse
           /\ after.counters = before.counters
           /\ Len(after.entries) = Len(before.entries)
           /\ SubSeq(after.forward, 1, Len(before.forward)) = before.forward
           /\ \A n \in 1..Len(new) :
                  /\ \E k \in 1..Len(spans) : spans[k].text = new[n].k
                  /\ DictHas(before.entries, new[n].v)
           /\ \A n \in 1..Len(before.entries) :
                  after.entries[n]
                      = [before.entries[n] EXCEPT
                           !.v.aliases = @ \o NewKeysOf(before, after, before.entries[n].k)]
           /\ (\A k \in 1..Len(spans) :
                   _find_match(before, spans[k].text, spans[k].label) = <<>>)
                  => after = before

\* "Dr Al" was resolved against a vault that held Al as a person, and is now
\* an alias of that entry
C16_Witness ==
    /\ vt.last.kind = "resolve_prompt_entities"
    /\ vt.last.arg.text = DR_AL
    /\ ~DictHas(vt.last.before.forward, DR_AL)
    /\ get_pseudonym(vt.vault, DR_AL) = get_pseudonym(vt.vault, AL)
    /\ get_pseudonym(vt.vault, AL) # <<>>

\* two spans were resolved against a vault that matched neither
C16_WitnessNoMatch ==
    /\ vt.last.kind = "resolve_prompt_entities"
    /\ Len(vt.last.arg.spans) = 2
    /\ vt.last.before.entries # <<>>
    /\ vt.vault = vt.last.before
    /\ get_pseudonym(vt.vault, BO) = <<>>

\* ------------------------------------ C17: entity types and the mapper

\* the entity type of the entry the vault holds for the text, <<>> for none
TypeLinked(vault, text) ==
    IF get_pseudonym(vault, text) # <<>> /\ DictHas(vault.entries, get_pseudonym(vault, text))
    THEN DictGet(vault.entries, get_pseudonym(vault, text)).entity_type
    ELSE <<>>

\* C17: an entity-type mismatch blocks a match.  An alias that
\* resolve_prompt_entities registers belongs to an entry of the label of a span
\* with that text, and after resolve_prompt_entities followed by
\* pseudonymize_text for the same spans the pseudonym that stands for a span
\* in the blinded text is that of an entry of the span's label.
C17_TypeMismatchBlocksMatch ==
    /\ vt.last.kind = "resolve_prompt_entities" =>
           LET new == NewKeys(vt.last.before, vt.vault)
               spans == vt.last.arg.spans
           IN \A n \in 1..Len(new) :
                  \E k \in 1..Len(spans) :
                      /\ spans[k].text = new[n].k
                      /\ spans[k].label = TypeLinked(vt.vault, new[n].k)
    /\ (vt.last.kind = "pseudonymize_text" /\ vt.last.arg.resolved) =>
           \A k \in 1..Len(vt.last.arg.spans) :
               /\ vt.last.result
                      = pseudonymize_text(vt.last.before, vt.last.arg.text,
                                          vt.last.arg.spans).text
               /\ TypeLinked(vt.vault, vt.last.arg.spans[k].text)
                      = vt.last.arg.spans[k].label

\* Al is held as a person; the span Al labelled ORG was resolved and then
\* blinded, and the blinded text is [PERSON_1]
C17_Reached ==
    /\ vt.last.kind = "pseudonymize_text"
    /\ vt.last.arg.resolved
    /\ vt.last.arg.spans = <<Span(AL, ORG, 0, 2)>>
    /\ vt.last.result = FormatPseudonym(PERSON, 1)

\* ------------------------------------------------- C19: the round trip

\* no entry of the vault has an alias
NoAlias(vault) ==
    \A n \in 1..Len(vault.entries) : vault.entries[n].v.aliases = <<>>

\* C19: when no alias is registered in the vault, restoring the text that
\* pseudonymize_text returned, on the same vault, gives the text that was
\* pseudonymized.
C19_RoundTrip ==
    (/\ vt.last.kind = "restore"
     /\ vt.last.arg.source # <<>>
     /\ NoAlias(vt.vault))
        => vt.last.result = vt.last.arg.source

\* the text "[PERSON_1] Al", with the span Al, was blinded on an empty vault
\* and restored: both the token that was typed and the one that stands for
\* Al came back as Al
C19_Reached ==
    /\ vt.last.kind = "restore"
    /\ vt.last.arg.source = TOKEN_AL
    /\ vt.last.arg.text = FormatPseudonym(PERSON, 1) \o <<" ">> \o FormatPseudonym(PERSON, 1)
    /\ vt.last.result = AL \o <<" ">> \o AL
    /\ NoAlias(vt.vault)

\* ------------------------------------- C20: tokens are replaced as wholes

\* a piece of an answer as it is to read once restored: the real value of a
\* token the vault binds, the piece itself otherwise
Read(vault, piece) ==
    IF has_real_value(vault, piece) THEN get_real_value(vault, piece) ELSE piece

\* C20: restore replaces each token as a whole, longest token first.  On a
\* vault that binds both [PERSON_1] and [PERSON_10], the tokens the text holds
\* are taken in an order of non-increasing length, every occurrence of each
\* token in an answer becomes the real value of that token, everything else
\* in the answer stays, and no bracket is left in the output.
C20_TokensReplacedWhole ==
    (/\ vt.last.kind = "restore"
     /\ has_real_value(vt.vault, FormatPseudonym(PERSON, 1))
     /\ has_real_value(vt.vault, FormatPseudonym(PERSON, 10)))
        => \A pieces \in ANSWERS :
               Concat(pieces) = vt.last.arg.text =>
                   /\ \A order \in UniqueOrders(FindAllFrom(vt.last.arg.text, 0)) :
                          \A i, j \in 1..Len(order) :
                              i < j => Len(order[i]) >= Len(order[j])
                   /\ vt.last.result
                          = Concat([n \in 1..Len(pieces) |-> Read(vt.vault, pieces[n])])
                   /\ \A n \in 1..Len(vt.last.result) :
                          vt.last.result[n] \notin {"[", "]"}

\* "[PERSON_1]'s [PERSON_10][PERSON_1]" was restored on the vault that holds
\* Al as [PERSON_1] and Bo as [PERSON_10]
C20_Witness ==
    /\ vt.last.kind = "restore"
    /\ has_real_value(vt.vault, FormatPseudonym(PERSON, 1))
    /\ has_real_value(vt.vault, FormatPseudonym(PERSON, 10))
    /\ get_real_value(vt.vault, FormatPseudonym(PERSON, 1)) = AL
    /\ get_real_value(vt.vault, FormatPseudonym(PERSON, 10)) = BO
    /\ vt.last.arg.text = FormatPseudonym(PERSON, 1) \o <<"'", "s", " ">>
                              \o FormatPseudonym(PERSON, 10) \o FormatPseudonym(PERSON, 1)
    /\ vt.last.result = AL \o <<"'", "s", " ">> \o BO \o AL

\* --------------------------------------- C18: the two texts of a message

\* C18: for every message a chat request persisted, restoring the pseudonyms
\* of its blinded_content against the vault of the request gives its
\* lawyer_content.
C18_BlindedRestoresToClear ==
    \A r \in CHATS :
        \A n \in 1..Len(db.messages) :
            db.messages[n].by = r =>
                db.messages[n].lawyer_content
                    \in restore(req[r].vault, db.messages[n].blinded_content)

\* the second request was sent "[PERSON_1]" on a session whose vault holds Al
\* as [PERSON_1]; the user message it saved has that text in both fields, and
\* restoring the blinded one gives Al
C18_Reached ==
    \E n \in 1..Len(db.messages) :
        /\ db.messages[n].by = "r2"
        /\ db.messages[n].role = "user"
        /\ db.messages[n].lawyer_content = TYPED_TOKEN
        /\ db.messages[n].blinded_content = TYPED_TOKEN
        /\ restore(req["r2"].vault, TYPED_TOKEN) = {<<"A", "l">>}

\* ------------------------------------ C21, C22: tokens the vault has not

\* is the piece of an answer a token of the pseudonym grammar
IsToken(piece) == FindAllFrom(piece, 0) = <<Slice(piece, 1, Len(piece) - 1)>>

\* the answers restore was given whose text is that of the last call
AnswersRestored ==
    {pieces \in ANSWERS \cup INVENTED :
         vt.last.kind = "restore" /\ Concat(pieces) = vt.last.arg.text}

\* what stands for a token the vault has not: the phrase of the table for
\* PROF, the text between the brackets otherwise
Humanised(piece) ==
    IF piece = FormatPseudonym(<<"P", "R", "O", "F">>, 1)
    THEN <<"t", "h", "e", " ", "p", "r", "o", "f", "e", "s", "s", "o", "r">>
    ELSE Slice(piece, 1, Len(piece) - 1)

\* a piece as it is to read once restored, tokens the vault has not humanised
Shown(vault, piece) ==
    IF ~IsToken(piece) THEN piece
    ELSE IF has_real_value(vault, piece) THEN get_real_value(vault, piece)
    ELSE Humanised(piece)

C22_WitnessNoToken ==
    /\ vt.last.kind = "restore"
    /\ vt.last.arg.text = <<"H", "i", ".">>
    /\ vt.last.result = <<"H", "i", ".">>

\* ------------------------------------- C23: sanitising what was sanitised

\* C23: the cleaned text of a call of the sanitiser is a fixed point of it:
\* sanitising it again gives the same cleaned text.
C23_SanitizeIdempotent ==
    pipe.last.kind # "none" =>
        sanitize(pipe.last.cleaned).cleaned_text = pipe.last.cleaned

\* "a", U+200B, U+0301 was sanitised: the zero-width space is gone and the
\* accent now follows the letter
C23_Reached ==
    /\ pipe.last.kind # "none"
    /\ pipe.last.text = <<"a", "\\u200b", "\\u0301">>
    /\ pipe.last.cleaned = <<"a", "\\u0301">>
    /\ sanitize(pipe.last.cleaned).cleaned_text = <<"\\u00e1">>

\* --------------------------- C24: the pseudonyms of the committed messages

\* no chat request and no upload of the session is under way
NoRequestInFlight ==
    /\ \A r \in CHATS : req[r].pc = "idle" \/ Ended(r)
    /\ up.pc \in {"idle", "done", "failed"}

\* C24: whenever no request is in flight, every pseudonym that a request put
\* into the blinded_content of a committed message has a committed vault
\* entry, also when that request ended with an error event or was cancelled.
C24_MessagePseudonymsStored ==
    NoRequestInFlight =>
        \A n \in 1..Len(db.messages) :
            \A s \in db.messages[n].stands :
                \E i \in 1..Len(db.vault_entries) :
                    db.vault_entries[i].pseudonym = s.pseudonym

\* the first request was cancelled or failed after it committed "Hi
\* [PERSON_1]"; nothing is in flight and the session has no vault entry
C24_Reached ==
    /\ NoRequestInFlight
    /\ req["r1"].pc \in {"failed", "cancelled"}
    /\ db.vault_entries = <<>>
    /\ \E n \in 1..Len(db.messages) :
           /\ db.messages[n].by = "r1"
           /\ db.messages[n].blinded_content = <<"H", "i", " ">> \o FormatPseudonym(PERSON, 1)
           /\ db.messages[n].stands # {}

\* ------------------------------- C25: one real value under two pseudonyms

\* the pseudonym of the first entry of the list that has the real value
FirstSeen(entries, real_value) ==
    entries[CHOOSE n \in 1..Len(entries) :
                /\ entries[n].real_value = real_value
                /\ \A k \in 1..(n - 1) : entries[k].real_value # real_value].pseudonym

\* C25: after load_entries, get_pseudonym of a real value returns the
\* pseudonym of the first entry of the loaded list that has this value, and
\* an add_entity of the value right after the load returns that pseudonym.
C25_FirstSeenKept ==
    /\ vt.last.kind = "load_entries" =>
           \A n \in 1..Len(vt.last.arg.entries) :
               get_pseudonym(vt.vault, vt.last.arg.entries[n].real_value)
                   = FirstSeen(vt.last.arg.entries, vt.last.arg.entries[n].real_value)
    /\ (vt.last.kind = "add_entity" /\ vt.calls = 2) =>
           LET loaded == [n \in 1..Len(vt.last.before.entries) |-> vt.last.before.entries[n].v]
           IN (\E n \in 1..Len(loaded) : loaded[n].real_value = vt.last.arg.real_value)
                  => vt.last.result = FirstSeen(loaded, vt.last.arg.real_value)

\* [PERSON_1] = Al and [PERSON_2] = Al were loaded in this order and Al was
\* added: the vault answers with [PERSON_2]
C25_Reached ==
    /\ vt.last.kind = "add_entity"
    /\ vt.calls = 2
    /\ vt.last.arg.real_value = AL
    /\ Len(vt.last.before.entries) = 2
    /\ vt.last.before.entries[1].v.real_value = AL
    /\ vt.last.before.entries[1].v.pseudonym = FormatPseudonym(PERSON, 1)
    /\ vt.last.before.entries[2].v.real_value = AL
    /\ vt.last.result = FormatPseudonym(PERSON, 2)

\* ------------------------------------- C26: the cells of a PII column

\* the cells of a pipe-delimited text, row by row
CellsOf(text) ==
    LET lines == SplitOn(text, <<"\n">>)
    IN [i \in 1..Len(lines) |-> SplitOn(lines[i], SEPARATOR)]

\* C26: in the blinded text of a tabular upload, every non-blank data cell
\* of a column that the sampling classified as PII is a pseudonym, whether or
\* not the sanitiser changed the text.
C26_PiiColumnCellsBlinded ==
    (pipe.last.kind = "tabular" /\ ~pipe.last.raised) =>
        \A i \in 2..Len(pipe.last.rows) :
            \A j \in 1..Len(pipe.last.rows[i]) :
                (/\ pipe.last.pii_columns[j] # <<>>
                 /\ Strip(pipe.last.rows[i][j], WHITESPACE) # <<>>)
                    => IsToken(CellsOf(pipe.last.blinded_text)[i][j])

\* a table with Al in a column classified as PERSON and a zero-width space
\* in another cell went through: the blinded text is the cleaned text, Al
\* included
C26_Reached ==
    /\ pipe.last.kind = "tabular"
    /\ ~pipe.last.raised
    /\ pipe.last.pii_columns[1] = PERSON
    /\ pipe.last.cleaned # pipe.last.text
    /\ pipe.last.blinded_text = pipe.last.cleaned
    /\ CellsOf(pipe.last.blinded_text)[2][1] = AL

\* ---------------------------------------------------------------- C27

\* the real values of the session: the vault rows, decrypted
SessionRealValues ==
    {decrypt(db.vault_entries[i].encrypted_value, encryption_key, db.vault_entries[i].nonce) :
         i \in 1..Len(db.vault_entries)}

\* the title of the report holds no real value of the session's vault
TitleBlinded == \A value \in SessionRealValues : ~Contains(ExportedReport.session.title, value)

\* C27: the audit export does not depend on the real values of the session:
\* no field of the report holds text obtained by restoring pseudonyms.  The
\* title of the report is the field stated here: a title in which a
\* pseudonym was restored holds a decrypted value of the vault.
C27_ExportHoldsNoRestoredText == TitleBlinded

\* a request ended with its done event, the LLM's title named a pseudonym of
\* the vault, and the report's title holds the real value in its place
C27_Reached ==
    /\ \E r \in CHATS :
           /\ req[r].pc = "done"
           /\ \E k \in 1..Len(llm_log[r]) :
                  /\ llm_log[r][k].kind = "title"
                  /\ llm_log[r][k].response # RAISED
                  /\ Contains(llm_log[r][k].response, TYPED_TOKEN)
    /\ Contains(ExportedReport.session.title, AL)
    /\ AL \in SessionRealValues
    /\ ExportedReport.vault_stats.total_entities >= 1

\* ---------------------------------------------------------------- C28

\* the last pipeline call was one during which exactly one gate raised
OneGateRaised ==
    /\ pipe.last.kind \in {"document", "prompt"}
    /\ "gates" \in DOMAIN pipe.last
    /\ pipe.last.gates.gate_a.raised # pipe.last.gates.gate_b.raised

\* the merged, non-overlapping spans of the gate that returned
SpansOfOtherGate ==
    Spans(_merge_detections(pipe.last.gates.gate_a.entities, pipe.last.gates.gate_b.entities))

\* C28: when exactly one of the two gates raises during detect, the document
\* or prompt operation does not fail, and what is blinded are the merged
\* spans of the other gate (for a document; a prompt keeps those of them that
\* the prompt filter lets through).
C28_OneGateFailureRecovered ==
    OneGateRaised =>
        /\ ~pipe.last.raised
        /\ pipe.last.kind = "document" => pipe.last.kept = SpansOfOtherGate

\* Gate B raised on a text in which Gate A had found a name; the call raised
\* and the vault is as it was
C28_Reached ==
    /\ OneGateRaised
    /\ pipe.last.kind = "document"
    /\ pipe.last.gates.gate_b.raised
    /\ SpansOfOtherGate # <<>>
    /\ pipe.last.raised
    /\ pipe.last.kept = <<>>
    /\ pipe.vault = EmptyVault

\* ---------------------------------------------------------------- C30

\* C30: prose chunking terminates for every text and every configured
\* chunk_size and chunk_overlap: a call of _chunk_text that entered its loop
\* returns.
C30_ChunkingTerminates == (svc.pc = "loop") ~> (svc.pc = "returned")

\* the loop ran with chunk_overlap not below chunk_size: start did not move
\* forward, and more chunks were made than the text has words
C30_Reached ==
    /\ svc.fn = "_chunk_text"
    /\ svc.pc = "loop"
    /\ svc.overlap >= svc.chunk_size
    /\ svc.start <= 0
    /\ Len(svc.chunks) > Len(svc.words)

\* ---------------------------------------------------------------- C29

\* the data rows of the tabular documents among the blinded documents
TableRows(blinded_documents) ==
    Concat([d \in 1..Len(blinded_documents) |->
               IF _is_tabular(blinded_documents[d])
               THEN parse_tabular(blinded_documents[d]).rows ELSE <<>>])

\* the pseudonyms the prompt names, and whether a data row holds one of them
Named(blinded_prompt) ==
    {<<"[">> \o TabularFindAll(blinded_prompt, 0)[k] \o <<"]">> :
         k \in 1..Len(TabularFindAll(blinded_prompt, 0))}

SomeNamedRow(blinded_prompt, blinded_documents) ==
    \E pseudonym \in Named(blinded_prompt) :
        \E r \in 1..Len(TableRows(blinded_documents)) :
            \E k \in 1..Len(TableRows(blinded_documents)[r]) :
                Contains(TableRows(blinded_documents)[r][k], pseudonym)

\* C29: the tabular result is used as the only context of the chat request
\* (a hit) only when a handler extracted data from a table: not when the
\* session has no tabular document, and not when the prompt names pseudonyms
\* of which no table row holds any.
C29_HitOnlyWithExtractedData ==
    (svc.fn = "try_tabular_query" /\ svc.step = "7a") =>
        /\ TableRows(svc.blinded_documents) # <<>>
        /\ Named(svc.blinded_prompt) # {}
               => SomeNamedRow(svc.blinded_prompt, svc.blinded_documents)

\* a prompt that names two pseudonyms, neither of them in a row of the
\* session's table, came back as a hit, and the two "No data found" lines are
\* the only context of the request
C29_Reached ==
    /\ svc.fn = "try_tabular_query"
    /\ Cardinality(Named(svc.blinded_prompt)) = 2
    /\ TableRows(svc.blinded_documents) # <<>>
    /\ ~SomeNamedRow(svc.blinded_prompt, svc.blinded_documents)
    /\ svc.tabular_result.query_type = "multi_lookup"
    /\ svc.tabular_result.success
    /\ svc.retrieved_chunks = <<svc.tabular_result.context>>
    /\ Contains(svc.tabular_result.context, <<"No data found for ">>)

=============================================================================
